---- MODULE Spec2Model ----
(***************************************************************************)
(* Navigation / routing engine of the borobudur backend service.           *)
(*                                                                         *)
(* Tables temple_nodes and temple_edges hold the walkable graph.  A route  *)
(* request resolves a coordinate to a start node, asks pgr_dijkstra for a  *)
(* path to the destination node and assembles the answer.  Two versions of *)
(* TempleEdgesRepository.findRoute exist in the sources: the one that      *)
(* inserts a 'virtual_start' node with two connector edges, and the one    *)
(* that resolves the start node with the entry-fallback policy.            *)
(*                                                                         *)
(* Coordinates are integer grid units.  One unit of longitude is 3 m and   *)
(* one unit of latitude is 4 m, so planar (degree) distance and metre      *)
(* distance are different metrics and the lengths of horizontal and        *)
(* vertical segments are whole metres.  Distances that the code compares   *)
(* are kept squared (d > 4  <=>  d*d > 16).                                *)
(*                                                                         *)
(* The later sections cover the maintenance of the tables nodes and edges  *)
(* (/v1/nodes, /v1/edges), the refresh tokens of the login handlers and    *)
(* the email verification codes.                                           *)
(***************************************************************************)
EXTENDS Integers, Sequences, FiniteSets, TLC

VARIABLES
  temple_nodes,   \* table temple_nodes, committed rows [id, name, x, y]
  temple_edges,   \* table temple_edges, committed rows
  edges,          \* table edges
  nodes_table,    \* table nodes (the identifier nodes names parameters below)
  users,          \* table users, rows [id, is_email_verified]
  refresh_tokens, \* table refresh_tokens, committed rows
  verification_codes, \* table verification_codes, committed rows
  now,            \* NOW() / Date.now()
  temple_features, \* table temple_features, rows [id, node_id, type]
  node_seq,       \* last value of the id sequence of temple_nodes (of nodes in SpecCrud)
  edge_seq,       \* last value of the id sequence of temple_edges (of edges in SpecCrud)
  req,            \* the requests in flight, per connection
  calls,          \* number of requests started
  pure            \* the call and result of a specification that applies one function

vars == <<temple_nodes, temple_edges, edges, nodes_table, users, refresh_tokens, verification_codes, now,
          temple_features, node_seq, edge_seq, req, calls, pure>>

tables == <<temple_nodes, temple_edges, edges, nodes_table, users, refresh_tokens, verification_codes, now,
            temple_features, node_seq, edge_seq>>

\* The tables and the clock that the routing requests leave alone.
others == <<nodes_table, users, refresh_tokens, verification_codes, now>>

NoOthers == nodes_table = {} /\ users = {} /\ refresh_tokens = {} /\ verification_codes = {} /\ now = 0

-----------------------------------------------------------------------------
(* SQL NULL / JS null: the empty tuple; a present value v is <<v>>.         *)
NULL == <<>>

Some(v) == <<v>>

COALESCE(a, b) == IF a = NULL THEN b ELSE a[1]

RECURSIVE SumSeq(_)
SumSeq(s) == IF s = <<>> THEN 0 ELSE Head(s) + SumSeq(Tail(s))

Abs(i) == IF i < 0 THEN -i ELSE i

RECURSIVE SortById(_)
SortById(S) ==
  IF S = {} THEN <<>>
  ELSE LET m == CHOOSE r \in S : \A q \in S : r.id <= q.id
       IN <<m>> \o SortById(S \ {m})

Reverse(s) == [i \in 1..Len(s) |-> s[Len(s) + 1 - i]]

-----------------------------------------------------------------------------
(* Node names, as character tuples so that the entry pattern is matched    *)
(* the way the regular expression matches it.                               *)
NameEntryNorth == <<"E", "N", "T", "R", "Y", "_", "N">>

NameEntryway == <<"E", "N", "T", "R", "Y", "W", "A", "Y">>

NameGate == <<"G", "a", "t", "e", " ", "1">>

NameVirtualStart == <<"v", "i", "r", "t", "u", "a", "l", "_", "s", "t", "a", "r", "t">>

ToUpper(c) ==
  LET up == [x \in {"e", "n", "t", "r", "y", "a", "w", "g"} |->
               CASE x = "e" -> "E" [] x = "n" -> "N" [] x = "t" -> "T" [] x = "r" -> "R"
                 [] x = "y" -> "Y" [] x = "a" -> "A" [] x = "w" -> "W" [] x = "g" -> "G"]
  IN IF c \in DOMAIN up THEN up[c] ELSE c

\* name ~* '^ENTRY(\b|_|\s|$)': in a PostgreSQL regular expression \b is the
\* backspace character, \s is white space.
ENTRY_NAME_PATTERN_SQL(name) ==
  /\ Len(name) >= 5
  /\ <<ToUpper(name[1]), ToUpper(name[2]), ToUpper(name[3]), ToUpper(name[4]), ToUpper(name[5])>>
       = <<"E", "N", "T", "R", "Y">>
  /\ \/ Len(name) = 5
     \/ name[6] \in {"_", " ", "<TAB>", "<BS>"}

ENTRY_DISTANCE_THRESHOLD_M == 4

-----------------------------------------------------------------------------
(* Metrics.                                                                 *)
\* geom <-> pt : planar distance in degrees (squared).
DegDist2(x1, y1, x2, y2) == (x1 - x2) * (x1 - x2) + (y1 - y2) * (y1 - y2)

\* ST_Distance(geography, geography) : metres (squared).
DistanceM2(x1, y1, x2, y2) == 9 * (x1 - x2) * (x1 - x2) + 16 * (y1 - y2) * (y1 - y2)

\* ST_DistanceSphere(p, q) and ST_Length(line::geography) of a two-vertex line:
\* metres.  Every segment of the model is horizontal, vertical or at 45
\* degrees, whose metre length is a whole number (3, 4 or 5 m per unit).
SegmentM(p, q) == CHOOSE n \in 0..(5 * (Abs(p[1] - q[1]) + Abs(p[2] - q[2]))) : n * n = DistanceM2(p[1], p[2], q[1], q[2])

\* ST_Length(geom::geography) of a polyline.
RECURSIVE ST_Length(_)
ST_Length(geom) ==
  IF Len(geom) < 2 THEN 0 ELSE SegmentM(geom[1], geom[2]) + ST_Length(Tail(geom))

-----------------------------------------------------------------------------
(* Start-point resolution (TempleEdgesRepository, second version).          *)

NodeInfo(n, lon, lat) ==
  [id |-> n.id, name |-> n.name, lon |-> n.x, lat |-> n.y,
   distance_m2 |-> DistanceM2(n.x, n.y, lon, lat)]

\* ORDER BY n.geom <-> p.pt LIMIT 1: the rows that can come first.  Rows at
\* the same planar distance can come in either order.
KnnFirst(nodes, lon, lat) ==
  { n \in nodes : \A m \in nodes : DegDist2(n.x, n.y, lon, lat) <= DegDist2(m.x, m.y, lon, lat) }

\* getNearestNodeInfo: the set of rows[0] the query can return (empty: throws).
GetNearestNodeInfo(nodes, lon, lat) == { NodeInfo(n, lon, lat) : n \in KnnFirst(nodes, lon, lat) }

\* getNearestEntryNodeInfo: rows[0] || null.
GetNearestEntryNodeInfo(nodes, lon, lat) ==
  LET entries == { n \in nodes : ENTRY_NAME_PATTERN_SQL(n.name) }
  IN IF entries = {} THEN {NULL}
     ELSE { Some(NodeInfo(n, lon, lat)) : n \in KnnFirst(entries, lon, lat) }

\* Variant: the threshold itself already triggers the entry fallback.
NeedsEntryAtThreshold(nearest) ==
  nearest.distance_m2 >= ENTRY_DISTANCE_THRESHOLD_M * ENTRY_DISTANCE_THRESHOLD_M

\* nearest.distance_m > ENTRY_DISTANCE_THRESHOLD_M
NeedsEntry(nearest) ==
  nearest.distance_m2 > ENTRY_DISTANCE_THRESHOLD_M * ENTRY_DISTANCE_THRESHOLD_M

\* resolveStartNode, given the answers of its queries (entry is consulted
\* only when NeedsEntry(nearest)).
ResolveStartNode(nearest, entry) ==
  IF NeedsEntry(nearest)
  THEN (IF entry # NULL THEN entry[1] ELSE nearest)
  ELSE nearest

-----------------------------------------------------------------------------
(* pgr_dijkstra(edges_sql, start, end, directed).                           *)
(* An inner row is [id, source, target, cost, reverse_cost]; a negative     *)
(* cost means that the edge does not exist in that direction.               *)

NoDist == -1

\* The arcs one inner row contributes to the graph.
ArcsOf(r, directed) ==
  IF directed
  THEN (IF r.cost >= 0 THEN <<[edge |-> r.id, from |-> r.source, to |-> r.target, w |-> r.cost]>> ELSE <<>>)
       \o (IF r.reverse_cost >= 0 THEN <<[edge |-> r.id, from |-> r.target, to |-> r.source, w |-> r.reverse_cost]>> ELSE <<>>)
  ELSE (IF r.cost >= 0
        THEN <<[edge |-> r.id, from |-> r.source, to |-> r.target, w |-> r.cost],
               [edge |-> r.id, from |-> r.target, to |-> r.source, w |-> r.cost]>>
        ELSE <<>>)
       \o (IF r.reverse_cost >= 0
           THEN <<[edge |-> r.id, from |-> r.target, to |-> r.source, w |-> r.reverse_cost],
                  [edge |-> r.id, from |-> r.source, to |-> r.target, w |-> r.reverse_cost]>>
           ELSE <<>>)

RECURSIVE ArcsOfRows(_, _)
ArcsOfRows(rows, directed) ==
  IF rows = <<>> THEN <<>> ELSE ArcsOf(Head(rows), directed) \o ArcsOfRows(Tail(rows), directed)

\* An arc improves the tentative distance of its head.
Improves(nd, old) == old = NoDist \/ nd < old

\* Relax every arc leaving u, in graph order.
RECURSIVE RelaxFrom(_, _, _, _)
RelaxFrom(st, u, arcs, i) ==
  IF i > Len(arcs) THEN st
  ELSE LET a == arcs[i]
           nd == st.dist[u] + a.w
       IN IF a.from = u /\ Improves(nd, st.dist[a.to])
          THEN RelaxFrom([dist |-> [st.dist EXCEPT ![a.to] = nd],
                          pred |-> [st.pred EXCEPT ![a.to] = i]], u, arcs, i + 1)
          ELSE RelaxFrom(st, u, arcs, i + 1)

\* The open vertex the priority queue yields next: least tentative distance.
ExtractMin(open, dist) ==
  CHOOSE v \in open : \A w \in open : dist[v] < dist[w] \/ (dist[v] = dist[w] /\ v <= w)

RECURSIVE DijkstraLoop(_, _, _, _)
DijkstraLoop(st, done, V, arcs) ==
  LET open == { v \in V \ done : st.dist[v] # NoDist }
  IN IF open = {} THEN st
     ELSE LET u == ExtractMin(open, st.dist)
          IN DijkstraLoop(RelaxFrom(st, u, arcs, 1), done \cup {u}, V, arcs)

\* Indices of the arcs of the predecessor chain from s to t.
RECURSIVE PredChain(_, _, _, _)
PredChain(pred, arcs, s, t) ==
  IF t = s THEN <<>> ELSE PredChain(pred, arcs, s, arcs[pred[t]].from) \o <<pred[t]>>

\* Result rows (seq, node, edge, cost, agg_cost); the last row has edge -1.
\* No rows when start = end, when there is no path, or when either vertex is
\* not in the graph.
pgr_dijkstra(rows, start, end, directed) ==
  LET arcs == ArcsOfRows(rows, directed)
      V == { rows[i].source : i \in 1..Len(rows) } \cup { rows[i].target : i \in 1..Len(rows) }
  IN IF start \notin V \/ end \notin V \/ start = end THEN <<>>
     ELSE LET st0 == [dist |-> [v \in V |-> IF v = start THEN 0 ELSE NoDist],
                      pred |-> [v \in V |-> 0]]
              st == DijkstraLoop(st0, {}, V, arcs)
          IN IF st.dist[end] = NoDist THEN <<>>
             ELSE LET chain == PredChain(st.pred, arcs, start, end)
                      k == Len(chain)
                  IN [i \in 1..(k + 1) |->
                        IF i <= k
                        THEN [seq |-> i, node |-> arcs[chain[i]].from, edge |-> arcs[chain[i]].edge,
                              cost |-> arcs[chain[i]].w, agg_cost |-> st.dist[arcs[chain[i]].from]]
                        ELSE [seq |-> i, node |-> end, edge |-> -1, cost |-> 0, agg_cost |-> st.dist[end]]]

\* A table scan without ORDER BY has no specified row order; the solver's
\* choice among equal-cost paths depends on it.  Two scan orders are drawn.
ScanOrders(tbl) == { SortById(tbl), Reverse(SortById(tbl)) }

-----------------------------------------------------------------------------
(* TempleEdgesRepository.routeFromNodeToNode and findRoute (second version) *)
(* A temple_edges row is [id, source, target, cost, reverse_cost, geom];    *)
(* reverse_cost is nullable, geom is the polyline from source to target.    *)

RowById(tbl, id) == CHOOSE r \in tbl : r.id = id

\* Variant: the two cost columns are handed over in each other's place.
InnerRowsSwapped(scan) ==
  [i \in 1..Len(scan) |->
     [id |-> scan[i].id, source |-> scan[i].source, target |-> scan[i].target,
      cost |-> COALESCE(scan[i].reverse_cost, scan[i].cost), reverse_cost |-> scan[i].cost]]

\* Variant: the inner query gives no reverse cost, every edge being one-way.
InnerRowsForwardOnly(scan) ==
  [i \in 1..Len(scan) |->
     [id |-> scan[i].id, source |-> scan[i].source, target |-> scan[i].target,
      cost |-> scan[i].cost, reverse_cost |-> -1]]

\* 'SELECT id, source, target, cost, COALESCE(reverse_cost, cost) AS reverse_cost FROM temple_edges'
InnerRowsCoalesce(scan) ==
  [i \in 1..Len(scan) |->
     [id |-> scan[i].id, source |-> scan[i].source, target |-> scan[i].target,
      cost |-> scan[i].cost, reverse_cost |-> COALESCE(scan[i].reverse_cost, scan[i].cost)]]

\* Variant: the solver is called with directed := false, as in the first version.
RouteCTEUndirected(scan, fromNodeId, toNodeId) ==
  pgr_dijkstra(InnerRowsCoalesce(scan), fromNodeId, toNodeId, FALSE)

\* WITH route AS (SELECT * FROM pgr_dijkstra(..., $1::int, $2::int, true))
RouteCTE(scan, fromNodeId, toNodeId) == pgr_dijkstra(InnerRowsCoalesce(scan), fromNodeId, toNodeId, TRUE)

\* Variant: the solver's cost column is taken for the length of the edge.
EdgesCTECostAsLength(route, scan) ==
  LET tbl == { scan[i] : i \in 1..Len(scan) }
      kept == SelectSeq(route, LAMBDA r : r.edge # -1 /\ \E e \in tbl : e.id = r.edge)
  IN [i \in 1..Len(kept) |->
        [id |-> kept[i].edge, geom |-> RowById(tbl, kept[i].edge).geom,
         len_m |-> kept[i].cost, node |-> kept[i].node,
         source |-> RowById(tbl, kept[i].edge).source]]

\* edges AS (SELECT e.id, e.geom, ST_Length(e.geom::geography) AS len_m
\*           FROM route r JOIN temple_edges e ON e.id = r.edge
\*           WHERE r.edge <> -1 ORDER BY r.seq)
EdgesCTE(route, scan) ==
  LET tbl == { scan[i] : i \in 1..Len(scan) }
      kept == SelectSeq(route, LAMBDA r : r.edge # -1 /\ \E e \in tbl : e.id = r.edge)
  IN [i \in 1..Len(kept) |->
        [id |-> kept[i].edge, geom |-> RowById(tbl, kept[i].edge).geom,
         len_m |-> ST_Length(RowById(tbl, kept[i].edge).geom), node |-> kept[i].node,
         source |-> RowById(tbl, kept[i].edge).source]]

\* meta AS (SELECT COALESCE(SUM(len_m),0) AS total_m FROM edges)
MetaTotal(edgesCte) == SumSeq([i \in 1..Len(edgesCte) |-> edgesCte[i].len_m])

\* Concatenation of polylines that share their joint vertex.
RECURSIVE Chain(_)
Chain(lines) ==
  IF lines = <<>> THEN <<>>
  ELSE IF Len(lines) = 1 THEN Head(lines)
  ELSE Head(lines) \o Tail(Chain(Tail(lines)))

\* line AS (SELECT ST_LineMerge(ST_Union(geom)) AS linegeom FROM edges): NULL
\* over no rows.  The edges of a path form one chain, which the merge sews
\* into one LineString; the union is a point set, so the merged line runs in
\* travel direction or against it (flip).
LineMergeUnion(edgesCte, flip) ==
  IF edgesCte = <<>> THEN NULL
  ELSE LET travel == Chain([i \in 1..Len(edgesCte) |->
                              IF edgesCte[i].source = edgesCte[i].node
                              THEN edgesCte[i].geom ELSE Reverse(edgesCte[i].geom)])
       IN Some([type |-> "LineString", coordinates |-> IF flip THEN Reverse(travel) ELSE travel])

\* Variant: the segments are aggregated in edge id order, not in seq order.
RECURSIVE SegmentsAggById(_)
SegmentsAggById(edgesCte) ==
  IF edgesCte = <<>> THEN <<>>
  ELSE LET m == CHOOSE i \in 1..Len(edgesCte) : \A j \in 1..Len(edgesCte) : edgesCte[i].id <= edgesCte[j].id
       IN <<[edge_id |-> edgesCte[m].id, length_m |-> edgesCte[m].len_m]>>
          \o SegmentsAggById(SelectSeq(edgesCte, LAMBDA r : r.id # edgesCte[m].id))

\* segments AS (SELECT COALESCE(json_agg(json_build_object('edge_id', id, 'length_m', len_m)), '[]') FROM edges)
SegmentsAgg(edgesCte) ==
  [i \in 1..Len(edgesCte) |-> [edge_id |-> edgesCte[i].id, length_m |-> edgesCte[i].len_m]]

\* The one row the statement returns.
RouteFromNodeToNode(scan, fromNodeId, toNodeId, flip) ==
  LET edgesCte == EdgesCTE(RouteCTE(scan, fromNodeId, toNodeId), scan)
  IN [distance_m |-> MetaTotal(edgesCte),
      geometry |-> LineMergeUnion(edgesCte, flip),
      segments |-> SegmentsAgg(edgesCte)]

\* Math.round((m || 0) / v), the speed v in cm/s.
SpeedOf(profile) ==
  CASE profile = "walking" -> 135
    [] profile = "wheelchair" -> 110
    [] profile = "guided" -> 120
    [] OTHER -> 130

secondsFromMeters(m, profile) == (200 * m + SpeedOf(profile)) \div (2 * SpeedOf(profile))

\* Variant: the segments are read from a property the row does not have.
FindRouteResultNoSegments(row, profile) ==
  IF row.geometry = NULL THEN [error |-> "No path found"]
  ELSE [type |-> "FeatureCollection",
        features |-> <<[type |-> "Feature",
                        geometry |-> row.geometry[1],
                        properties |-> [distance_m |-> row.distance_m,
                                        duration_s |-> secondsFromMeters(row.distance_m, profile),
                                        profile |-> profile,
                                        segments |-> <<>>]]>>]

\* findRoute, steps 4 and 5: from the row to the returned object.
FindRouteResult(row, profile) ==
  IF row.geometry = NULL THEN [error |-> "No path found"]
  ELSE [type |-> "FeatureCollection",
        features |-> <<[type |-> "Feature",
                        geometry |-> row.geometry[1],
                        properties |-> [distance_m |-> row.distance_m,
                                        duration_s |-> secondsFromMeters(row.distance_m, profile),
                                        profile |-> profile,
                                        segments |-> row.segments]]>>]

-----------------------------------------------------------------------------
(* TemplesControllerV2.getRoute and the GET /navigation/route handler.      *)

\* to3DGeometry(geom) without elevation options: a vertex without z gets 0.
AddZConst(pt, zConst) == IF Len(pt) >= 3 THEN <<pt[1], pt[2], pt[3]>> ELSE <<pt[1], pt[2], zConst>>

To3DGeometry(geom) ==
  [geom EXCEPT !.coordinates = [i \in 1..Len(geom.coordinates) |-> AddZConst(geom.coordinates[i], 0)]]

\* What the handler answers for the value findRoute returned (NULL: null).
GetRouteResponse(route) ==
  IF route = NULL
  THEN [code |-> 404, status |-> "error", message |-> "Route not found"]
  ELSE IF "type" \in DOMAIN route[1] /\ route[1].type = "FeatureCollection"
  THEN [code |-> 200, status |-> "success", message |-> "Route computed",
        data |-> [route[1] EXCEPT !.features =
                    [i \in 1..Len(route[1].features) |->
                       [route[1].features[i] EXCEPT !.geometry = To3DGeometry(route[1].features[i].geometry)]]]]
  ELSE [code |-> 200, status |-> "success", message |-> "Route computed", data |-> route[1]]

\* failedResponse for an exception without statusCode.
ErrorResponse(message) == [code |-> 500, status |-> "error", message |-> message]

-----------------------------------------------------------------------------
(* EdgesRepository.shortestPath over the table edges                        *)
(* (rows [id, source, target, cost, geom]).                                 *)

\* 'SELECT id, source, target, cost FROM edges': no reverse_cost column, which
\* the solver takes as -1.
InnerRowsCostOnly(scan) ==
  [i \in 1..Len(scan) |->
     [id |-> scan[i].id, source |-> scan[i].source, target |-> scan[i].target,
      cost |-> scan[i].cost, reverse_cost |-> -1]]

\* pgr_dijkstra(..., $1, $2, false) AS dij JOIN edges e ON dij.edge = e.id ORDER BY seq
ShortestPath(scan, source, target) ==
  LET dij == pgr_dijkstra(InnerRowsCostOnly(scan), source, target, FALSE)
      kept == SelectSeq(dij, LAMBDA r : \E i \in 1..Len(scan) : scan[i].id = r.edge)
  IN [i \in 1..Len(kept) |->
        [seq |-> kept[i].seq, node |-> kept[i].node, edge |-> kept[i].edge, cost |-> kept[i].cost,
         geom |-> RowById({ scan[j] : j \in 1..Len(scan) }, kept[i].edge).geom]]

-----------------------------------------------------------------------------
(* Bounds and input sets.                                                   *)

\* Coordinates of nodes and queries range over 0..GridMax.
GridMax == 2

\* The cost of an edge is its length or CheapCost.
CheapCost == 1

Grid == 0..GridMax

Idle == [pc |-> "idle"]

NoCall == [op |-> "none"]

\* Graphs of the route specification: three nodes, and any subset of the
\* edges 1-2, 2-3 and 1-3, each with its cost and reverse cost.
RouteNodes ==
  { [id |-> 1, name |-> NameEntryNorth, x |-> 0, y |-> 0],
    [id |-> 2, name |-> NameGate, x |-> 2, y |-> 0],
    [id |-> 3, name |-> NameGate, x |-> 2, y |-> 2] }

NodePos(nodes, id) == LET n == CHOOSE m \in nodes : m.id = id IN <<n.x, n.y>>

EdgeRows(id, s, t) ==
  LET g == <<NodePos(RouteNodes, s), NodePos(RouteNodes, t)>>
  IN { [id |-> id, source |-> s, target |-> t, cost |-> c, reverse_cost |-> rc, geom |-> g] :
         c \in {ST_Length(g), CheapCost},
         rc \in {NULL, Some(-1), Some(CheapCost), Some(ST_Length(g))} }

RouteGraphs ==
  { a \cup b \cup c :
      a \in {{}} \cup { {r} : r \in EdgeRows(1, 1, 2) },
      b \in {{}} \cup { {r} : r \in EdgeRows(2, 2, 3) },
      c \in {{}} \cup { {r} : r \in EdgeRows(3, 1, 3) } }

RoutePoints == { <<0, 0>>, <<2, 0>>, <<2, 2>>, <<0, 1>>, <<1, 1>> }

\* Destination node ids; 9 is the id of no node.
RouteDests == {1, 2, 3, 9}

Profiles == {"walking"}

\* Node tables of the start-resolution specification.
ResolveNames == {NameEntryNorth, NameGate, NameEntryway}

ResolveNodeSets ==
  {{}} \cup
  { { [id |-> 1, name |-> n1, x |-> x1, y |-> y1] } :
      n1 \in ResolveNames, x1 \in Grid, y1 \in Grid } \cup
  { { [id |-> 1, name |-> n1, x |-> x1, y |-> y1], [id |-> 2, name |-> n2, x |-> x2, y |-> y2] } :
      n1 \in ResolveNames, x1 \in Grid, y1 \in Grid, n2 \in ResolveNames, x2 \in Grid, y2 \in Grid }

-----------------------------------------------------------------------------
(* Specification of one route call on a drawn graph.                        *)

InitRoute ==
  /\ NoOthers
  /\ temple_nodes = RouteNodes
  /\ temple_edges \in RouteGraphs
  /\ edges = { [id |-> e.id, source |-> e.source, target |-> e.target, cost |-> e.cost, geom |-> e.geom] :
                 e \in temple_edges }
  /\ temple_features = {}
  /\ node_seq = 3
  /\ edge_seq = 3
  /\ req = <<>>
  /\ calls = 0
  /\ pure = NoCall

\* GET /navigation/route served without interleaving: getRoute, findRoute
\* (second version) and the response.
GetRouteCall ==
  \E pt \in RoutePoints, to \in RouteDests, profile \in Profiles :
    /\ pure = NoCall
    /\ \E nearest \in GetNearestNodeInfo(temple_nodes, pt[1], pt[2]) :
      \E entry \in (IF NeedsEntry(nearest) THEN GetNearestEntryNodeInfo(temple_nodes, pt[1], pt[2]) ELSE {NULL}) :
        \E scan \in ScanOrders(temple_edges), flip \in BOOLEAN :
          LET startInfo == ResolveStartNode(nearest, entry)
              row == RouteFromNodeToNode(scan, startInfo.id, to, flip)
              route == FindRouteResult(row, profile)
          IN    pure' = [op |-> "getRoute", from |-> pt, to |-> to, profile |-> profile,
                         startInfo |-> startInfo,
                         solver |-> RouteCTE(scan, startInfo.id, to),
                         row |-> row, route |-> route,
                         response |-> GetRouteResponse(Some(route))]
    /\ UNCHANGED <<tables, req, calls>>

\* EdgesRepository.shortestPath(source, target).
ShortestPathCall ==
  \E source \in {1, 2, 3}, target \in {1, 2, 3} :
    \E scan \in ScanOrders(edges) :
      /\ pure = NoCall
      /\ pure' = [op |-> "shortestPath", source |-> source, target |-> target,
                  rows |-> ShortestPath(scan, source, target)]
      /\ UNCHANGED <<tables, req, calls>>

NextRoute == GetRouteCall \/ ShortestPathCall

SpecRoute == InitRoute /\ [][NextRoute]_vars

-----------------------------------------------------------------------------
(* Specification of start-point resolution on a drawn node table.           *)

InitResolve ==
  /\ NoOthers
  /\ temple_nodes \in ResolveNodeSets
  /\ temple_edges = {}
  /\ edges = {}
  /\ temple_features = {}
  /\ node_seq = 2
  /\ edge_seq = 0
  /\ req = <<>>
  /\ calls = 0
  /\ pure = NoCall

\* resolveStartNode(lon, lat); getNearestNodeInfo throws on an empty table.
ResolveStartNodeCall ==
  \E lon \in Grid, lat \in Grid :
    /\ pure = NoCall
    /\ temple_nodes # {}
    /\ \E nearest \in GetNearestNodeInfo(temple_nodes, lon, lat) :
         \E entry \in (IF NeedsEntry(nearest) THEN GetNearestEntryNodeInfo(temple_nodes, lon, lat) ELSE {NULL}) :
           pure' = [op |-> "resolveStartNode", lon |-> lon, lat |-> lat,
                    nearest |-> nearest, entry |-> entry,
                    startInfo |-> ResolveStartNode(nearest, entry)]
    /\ UNCHANGED <<tables, req, calls>>

ResolveStartNodeThrows ==
  \E lon \in Grid, lat \in Grid :
    /\ pure = NoCall
    /\ temple_nodes = {}
    /\ pure' = [op |-> "resolveStartNode", lon |-> lon, lat |-> lat,
                throws |-> "No nodes near the given coordinate"]
    /\ UNCHANGED <<tables, req, calls>>

NextResolve == ResolveStartNodeCall \/ ResolveStartNodeThrows

SpecResolve == InitResolve /\ [][NextResolve]_vars

-----------------------------------------------------------------------------
(* Reference notions for the properties, defined on the tables alone.       *)

\* The ways an edge row can be walked by routeFromNodeToNode: forward at
\* cost, backward at the reverse cost (the cost when that is null); a
\* negative value closes the direction.
Walks(tbl) ==
  { [edge |-> e.id, from |-> e.source, to |-> e.target, w |-> e.cost] : e \in { r \in tbl : r.cost >= 0 } }
  \cup
  { [edge |-> e.id, from |-> e.target, to |-> e.source, w |-> COALESCE(e.reverse_cost, e.cost)] :
      e \in { r \in tbl : COALESCE(r.reverse_cost, r.cost) >= 0 } }

\* The ways a row of edges can be walked by shortestPath: both ways at cost.
WalksUndirected(tbl) ==
  { [edge |-> e.id, from |-> e.source, to |-> e.target, w |-> e.cost] : e \in { r \in tbl : r.cost >= 0 } }
  \cup
  { [edge |-> e.id, from |-> e.target, to |-> e.source, w |-> e.cost] : e \in { r \in tbl : r.cost >= 0 } }

Vertices(walks) == { a.from : a \in walks } \cup { a.to : a \in walks }

\* Least cost of a walk of at most k steps from s, per vertex (NoDist: none).
RECURSIVE LeastCost(_, _, _)
LeastCost(walks, s, k) ==
  IF k = 0 THEN [v \in Vertices(walks) \cup {s} |-> IF v = s THEN 0 ELSE NoDist]
  ELSE LET d == LeastCost(walks, s, k - 1)
       IN [v \in DOMAIN d |->
             LET cands == { d[a.from] + a.w : a \in { b \in walks : b.to = v /\ d[b.from] # NoDist } }
                            \cup (IF d[v] # NoDist THEN {d[v]} ELSE {})
             IN IF cands = {} THEN NoDist ELSE CHOOSE c \in cands : \A c2 \in cands : c <= c2]

\* Least cost of any walk from s to t; NoDist when t cannot be reached.
MinCost(walks, s, t) ==
  LET d == LeastCost(walks, s, Cardinality(Vertices(walks)))
  IN IF t \in DOMAIN d THEN d[t] ELSE NoDist

Connected(walks, s, t) == s = t \/ MinCost(walks, s, t) # NoDist

\* rows is a walk from s to t: each row leaves its node by its edge at its
\* cost and arrives at the node of the next row.
IsWalk(rows, walks, s, t) ==
  /\ Len(rows) >= 2
  /\ rows[1].node = s
  /\ rows[Len(rows)].node = t
  /\ \A i \in 1..(Len(rows) - 1) :
       [edge |-> rows[i].edge, from |-> rows[i].node, to |-> rows[i + 1].node, w |-> rows[i].cost] \in walks

WalkCost(rows) == SumSeq([i \in 1..Len(rows) |-> rows[i].cost])

RouteCalled == pure.op = "getRoute"

RouteFound == RouteCalled /\ "type" \in DOMAIN pure.route

Properties == pure.route.features[1].properties

-----------------------------------------------------------------------------
\* C1: whenever the solver returns a route, its rows are a walk from the
\* start node to the destination and no walk between them costs less; the
\* same for the rows of shortestPath (with the target appended).
C1_RouteHasMinimumCost ==
  /\ (RouteCalled /\ pure.solver # <<>>) =>
       /\ IsWalk(pure.solver, Walks(temple_edges), pure.startInfo.id, pure.to)
       /\ WalkCost(pure.solver) = MinCost(Walks(temple_edges), pure.startInfo.id, pure.to)
  /\ (pure.op = "shortestPath" /\ pure.rows # <<>>) =>
       /\ IsWalk(pure.rows \o <<[node |-> pure.target, edge |-> -1, cost |-> 0]>>,
                 WalksUndirected(edges), pure.source, pure.target)
       /\ WalkCost(pure.rows) = MinCost(WalksUndirected(edges), pure.source, pure.target)

\* A route of two edges was returned although one edge joins its ends.
C1_Witness ==
  /\ RouteFound
  /\ Len(pure.solver) = 3
  /\ \E a \in Walks(temple_edges) : a.from = pure.startInfo.id /\ a.to = pure.to

\* C2: the start node follows the three-tier policy: the nearest node when
\* its distance is at most 4 m, else the nearest entry node when the table
\* has an entry node, else the nearest node.
C2_ThreeTierPolicy ==
  (pure.op = "resolveStartNode" /\ "startInfo" \in DOMAIN pure) =>
    LET entries == { n \in temple_nodes : ENTRY_NAME_PATTERN_SQL(n.name) }
        d2 == DistanceM2(pure.nearest.lon, pure.nearest.lat, pure.lon, pure.lat)
    IN /\ \E n \in temple_nodes : n.id = pure.nearest.id /\ n.x = pure.nearest.lon /\ n.y = pure.nearest.lat
       /\ d2 <= 16 => pure.startInfo = pure.nearest
       /\ (d2 > 16 /\ entries = {}) => pure.startInfo = pure.nearest
       /\ (d2 > 16 /\ entries # {}) =>
            \E n \in entries :
              /\ pure.startInfo.id = n.id
              /\ \A m \in entries : DegDist2(n.x, n.y, pure.lon, pure.lat) <= DegDist2(m.x, m.y, pure.lon, pure.lat)

\* The entry node was used although the nearest node is closer than it.
C2_Witness ==
  /\ pure.op = "resolveStartNode"
  /\ "startInfo" \in DOMAIN pure
  /\ pure.startInfo.id # pure.nearest.id
  /\ pure.startInfo.distance_m2 > pure.nearest.distance_m2
  /\ pure.nearest.distance_m2 > 16

\* C5: when the destination cannot be reached from the start node, the
\* request ends with 404.
C5_NoPathIsNotFound ==
  (RouteCalled /\ ~Connected(Walks(temple_edges), pure.startInfo.id, pure.to)) => pure.response.code = 404

\* C6 as claimed: an edge whose reverse cost is null is never walked from
\* its target to its source.
C6_NullReverseNeverWalkedBackward ==
  RouteCalled =>
    \A i \in 1..Len(pure.solver) :
      pure.solver[i].edge # -1 =>
        LET e == RowById(temple_edges, pure.solver[i].edge)
        IN (e.reverse_cost = NULL /\ e.source # e.target) => pure.solver[i].node # e.target

\* C6 amended: an edge whose reverse cost is negative is never walked from
\* its target to its source; an edge whose reverse cost is null is walked
\* backward at its forward cost.
C6_NegativeReverseNeverWalkedBackward ==
  RouteCalled =>
    \A i \in 1..Len(pure.solver) :
      pure.solver[i].edge # -1 =>
        LET e == RowById(temple_edges, pure.solver[i].edge)
        IN /\ (e.reverse_cost # NULL /\ e.reverse_cost[1] < 0) => pure.solver[i].node = e.source
           /\ (e.reverse_cost = NULL /\ pure.solver[i].node = e.target) => pure.solver[i].cost = e.cost

\* A route that leaves the target of an edge with a negative reverse cost
\* and reaches its source another way.
C6_Witness ==
  /\ RouteFound
  /\ \E e \in temple_edges :
       /\ e.reverse_cost = Some(-1)
       /\ pure.startInfo.id = e.target
       /\ pure.to = e.source

\* C7: findRoute answers "No path found" exactly when the destination is
\* not connected to the start node (a node is connected to itself).
C7_NoPathIffNotConnected ==
  RouteCalled =>
    (("error" \in DOMAIN pure.route) <=> ~Connected(Walks(temple_edges), pure.startInfo.id, pure.to))

\* C8 as claimed: distance_m is the sum of the costs of the walked edges.
C8_DistanceIsSumOfCosts ==
  RouteFound => Properties.distance_m = WalkCost(pure.solver)

\* C8 amended: distance_m is the sum of the lengths of the walked edges, and
\* the sum of their costs when each walked edge has its length for cost.
C8_DistanceIsSumOfLengths ==
  RouteFound =>
    LET walked == SelectSeq(pure.solver, LAMBDA r : r.edge # -1)
        len(r) == ST_Length(RowById(temple_edges, r.edge).geom)
    IN /\ Properties.distance_m = SumSeq([i \in 1..Len(walked) |-> len(walked[i])])
       /\ (\A i \in 1..Len(walked) : walked[i].cost = len(walked[i]))
            => Properties.distance_m = WalkCost(pure.solver)

\* A route of two edges whose costs are not their lengths.
C8_Witness ==
  /\ RouteFound
  /\ Len(pure.solver) = 3
  /\ Properties.distance_m # WalkCost(pure.solver)

\* C9: distance_m is the sum of length_m over the segments.
C9_DistanceIsSumOfSegments ==
  RouteFound =>
    /\ Properties.distance_m = SumSeq([i \in 1..Len(Properties.segments) |-> Properties.segments[i].length_m])
    /\ pure.response.data.features[1].properties = Properties

C9_Witness ==
  /\ RouteFound
  /\ Len(Properties.segments) = 2
  /\ pure.response.code = 200

\* C10: the segments are the walked edges, one entry each with the length
\* of the edge, in the order of the walk from the start to the destination.
C10_SegmentsInTravelOrder ==
  RouteFound =>
    /\ Len(Properties.segments) = Len(pure.solver) - 1
    /\ IsWalk(pure.solver, Walks(temple_edges), pure.startInfo.id, pure.to)
    /\ \A i \in 1..Len(Properties.segments) :
         /\ Properties.segments[i].edge_id = pure.solver[i].edge
         /\ Properties.segments[i].length_m = ST_Length(RowById(temple_edges, pure.solver[i].edge).geom)

\* A route that walks edge 2 and then edge 1.
C10_Witness ==
  /\ RouteFound
  /\ Len(Properties.segments) = 2
  /\ Properties.segments[1].edge_id > Properties.segments[2].edge_id

-----------------------------------------------------------------------------
(* TempleEdgesRepository.findRoute, first version: the query coordinate is  *)
(* snapped to the nearest edge, a node 'virtual_start' is inserted at the   *)
(* snap point and connected to both ends of that edge.                      *)

\* The grid points of a two-vertex segment (horizontal, vertical or 45 degrees).
LatticePoints(geom) ==
  LET a == geom[1]
      b == geom[2]
      lo(u, v) == IF u < v THEN u ELSE v
      hi(u, v) == IF u < v THEN v ELSE u
  IN { <<x, y>> : x \in lo(a[1], b[1])..hi(a[1], b[1]), y \in lo(a[2], b[2])..hi(a[2], b[2]) }
       \cap { p \in (lo(a[1], b[1])..hi(a[1], b[1])) \X (lo(a[2], b[2])..hi(a[2], b[2])) :
                (p[1] - a[1]) * (b[2] - a[2]) = (p[2] - a[2]) * (b[1] - a[1]) }

\* ST_ClosestPoint(geom, pt): for a query on the grid and a horizontal or
\* vertical segment the closest point is a grid point of the segment.
ST_ClosestPoint(geom, pt) ==
  CHOOSE p \in LatticePoints(geom) :
    \A q \in LatticePoints(geom) : DegDist2(p[1], p[2], pt[1], pt[2]) <= DegDist2(q[1], q[2], pt[1], pt[2])

\* geom <-> pt (squared).
EdgeDegDist2(geom, pt) ==
  LET p == ST_ClosestPoint(geom, pt) IN DegDist2(p[1], p[2], pt[1], pt[2])

\* ORDER BY geom <-> pt LIMIT 1 on temple_edges: the rows that can come first.
SnapFirst(tbl, pt) ==
  { e \in tbl : \A f \in tbl : EdgeDegDist2(e.geom, pt) <= EdgeDegDist2(f.geom, pt) }

\* INSERT INTO temple_edges (source, target, cost, reverse_cost, geom)
\* VALUES ($1, $2, ST_DistanceSphere($3, node geom), same, ST_MakeLine($3, node geom))
ConnectorRow(id, fromNodeId, toNode, snapPoint, rid) ==
  [id |-> id, source |-> fromNodeId, target |-> toNode.id,
   cost |-> SegmentM(snapPoint, <<toNode.x, toNode.y>>),
   reverse_cost |-> Some(SegmentM(snapPoint, <<toNode.x, toNode.y>>)),
   geom |-> <<snapPoint, <<toNode.x, toNode.y>>>>,
   by |-> rid]

\* 'SELECT id, source, target, cost, reverse_cost FROM temple_edges'; the
\* solver rejects a null in a column it is given.
HasNullReverse(scan) == \E i \in 1..Len(scan) : scan[i].reverse_cost = NULL

InnerRowsRaw(scan) ==
  [i \in 1..Len(scan) |->
     [id |-> scan[i].id, source |-> scan[i].source, target |-> scan[i].target,
      cost |-> scan[i].cost, reverse_cost |-> scan[i].reverse_cost[1]]]

\* pgr_dijkstra(..., $1::BIGINT, $2::BIGINT, directed := false) AS r
\* JOIN temple_edges e ON r.edge = e.id ORDER BY r.seq
RouteRowsV1(scan, fromNodeId, toNodeId) ==
  EdgesCTE(pgr_dijkstra(InnerRowsRaw(scan), fromNodeId, toNodeId, FALSE), scan)

\* ST_Length(ST_Transform(line, 3857)): Web-Mercator length, the same scale
\* on both axes (5 per unit), of a horizontal or vertical two-vertex line.
MercatorLength(geom) == 5 * (Abs(geom[1][1] - geom[2][1]) + Abs(geom[1][2] - geom[2][2]))

\* The merge query and the object findRoute returns.
FindRouteResultV1(rows, profile, flip) ==
  [type |-> "FeatureCollection",
   features |-> <<[type |-> "Feature",
                   geometry |-> LineMergeUnion(rows, flip)[1],
                   properties |-> [distance_m |-> SumSeq([i \in 1..Len(rows) |-> MercatorLength(rows[i].geom)]),
                                   profile |-> profile]]>>]

\* TemplesController.getRoute (no elevation) and its handler.
GetRouteResponseV1(route) ==
  IF route = NULL
  THEN [code |-> 404, status |-> "error", message |-> "Route not found"]
  ELSE [code |-> 200, status |-> "success", message |-> "Route computed", data |-> route[1]]

-----------------------------------------------------------------------------
(* Concurrent route requests on the shared tables.  Each request runs in    *)
(* withTransaction: its statements see the committed rows and its own       *)
(* inserts, which are committed when its callback returns and rolled back   *)
(* when it throws.                                                          *)

\* The number of requests a behaviour starts.
MaxCalls == 2

Conns == {1, 2}

SpecNodes ==
  { [id |-> 1, name |-> NameEntryNorth, x |-> 0, y |-> 0],
    [id |-> 2, name |-> NameGate, x |-> 2, y |-> 0],
    [id |-> 3, name |-> NameGate, x |-> 2, y |-> 2] }

SpecEdge1 ==
  [id |-> 1, source |-> 1, target |-> 2, cost |-> 6, reverse_cost |-> Some(6), geom |-> <<<<0, 0>>, <<2, 0>>>>]

SpecEdge2 ==
  [id |-> 2, source |-> 2, target |-> 3, cost |-> 8, reverse_cost |-> NULL, geom |-> <<<<2, 0>>, <<2, 2>>>>]

SpecGraphs == { {}, {SpecEdge1}, {SpecEdge1, SpecEdge2} }

SpecPoints == { <<1, 1>>, <<2, 0>> }

SpecDests == {1, 2}

\* The request that inserted a row (0: a row of the imported graph).
Creator(row) == IF "by" \in DOMAIN row THEN row.by ELSE 0

Foreign(rows, rid) == { [id |-> r.id, by |-> Creator(r)] : r \in { q \in rows : Creator(q) \notin {0, rid} } }

VisibleNodes(c) == temple_nodes \cup req[c].tx_nodes

VisibleEdges(c) == temple_edges \cup req[c].tx_edges

Init ==
  /\ NoOthers
  /\ temple_nodes = SpecNodes
  /\ temple_edges \in SpecGraphs
  /\ edges = {}
  /\ temple_features = {}
  /\ node_seq = 3
  /\ edge_seq = 2
  /\ req = [c \in Conns |-> Idle]
  /\ calls = 0
  /\ pure = NoCall

Set(c, r) == req' = [req EXCEPT ![c] = r]

\* getRoute up to the start of the transaction.
Start(c) ==
  /\ req[c].pc = "idle"
  /\ calls < MaxCalls
  /\ \E ver \in {"v1", "v2"}, from \in SpecPoints, to \in SpecDests :
       Set(c, [pc |-> IF ver = "v1" THEN "snap" ELSE "nearest",
               rid |-> calls + 1, ver |-> ver, from |-> from, to |-> to, profile |-> "walking",
               tx_nodes |-> {}, tx_edges |-> {}, local |-> <<>>, foreign |-> {},
               route |-> NULL])
  /\ calls' = calls + 1
  /\ UNCHANGED <<tables, pure>>

\* snapQuery; no edge: return null.
Snap(c) ==
  /\ req[c].pc = "snap"
  /\ IF VisibleEdges(c) = {}
     THEN Set(c, [req[c] EXCEPT !.pc = "commit", !.route = NULL])
     ELSE \E e \in SnapFirst(VisibleEdges(c), req[c].from) :
            Set(c, [req[c] EXCEPT !.pc = "insert_node",
                                  !.local = [edgeId |-> e.id, snapPoint |-> ST_ClosestPoint(e.geom, req[c].from)],
                                  !.foreign = @ \cup Foreign({e}, req[c].rid)])
  /\ UNCHANGED <<tables, calls, pure>>

\* INSERT INTO temple_nodes (name, geom) VALUES ('virtual_start', $1) RETURNING id
InsertNode(c) ==
  /\ req[c].pc = "insert_node"
  /\ node_seq' = node_seq + 1
  /\ Set(c, [req[c] EXCEPT !.pc = "edge_query",
                           !.tx_nodes = @ \cup { [id |-> node_seq + 1, name |-> NameVirtualStart,
                                                  x |-> req[c].local.snapPoint[1],
                                                  y |-> req[c].local.snapPoint[2],
                                                  by |-> req[c].rid] },
                           !.local = [edgeId |-> req[c].local.edgeId, snapPoint |-> req[c].local.snapPoint,
                                      fromNodeId |-> node_seq + 1]])
  /\ UNCHANGED <<others, temple_nodes, temple_edges, edges, temple_features, edge_seq, calls, pure>>

\* SELECT source, target, ... FROM temple_edges WHERE id = $1
EdgeQuery(c) ==
  /\ req[c].pc = "edge_query"
  /\ LET e == RowById(VisibleEdges(c), req[c].local.edgeId)
     IN Set(c, [req[c] EXCEPT !.pc = "connect_source",
                              !.local = [snapPoint |-> req[c].local.snapPoint,
                                         fromNodeId |-> req[c].local.fromNodeId,
                                         source |-> e.source, target |-> e.target],
                              !.foreign = @ \cup Foreign({e}, req[c].rid)])
  /\ UNCHANGED <<tables, calls, pure>>

\* Connect virtual node -> source
ConnectSource(c) ==
  /\ req[c].pc = "connect_source"
  /\ edge_seq' = edge_seq + 1
  /\ LET n == RowById(VisibleNodes(c), req[c].local.source)
     IN Set(c, [req[c] EXCEPT !.pc = "connect_target",
                              !.tx_edges = @ \cup { ConnectorRow(edge_seq + 1, req[c].local.fromNodeId, n,
                                                                 req[c].local.snapPoint, req[c].rid) }])
  /\ UNCHANGED <<others, temple_nodes, temple_edges, edges, temple_features, node_seq, calls, pure>>

\* Connect virtual node -> target
ConnectTarget(c) ==
  /\ req[c].pc = "connect_target"
  /\ edge_seq' = edge_seq + 1
  /\ LET n == RowById(VisibleNodes(c), req[c].local.target)
     IN Set(c, [req[c] EXCEPT !.pc = "dijkstra",
                              !.tx_edges = @ \cup { ConnectorRow(edge_seq + 1, req[c].local.fromNodeId, n,
                                                                 req[c].local.snapPoint, req[c].rid) },
                              !.local = [fromNodeId |-> req[c].local.fromNodeId]])
  /\ UNCHANGED <<others, temple_nodes, temple_edges, edges, temple_features, node_seq, calls, pure>>

\* The pgr_dijkstra statement of the first version; no rows: return null.
DijkstraV1(c) ==
  /\ req[c].pc = "dijkstra"
  /\ \E scan \in ScanOrders(VisibleEdges(c)) :
       IF HasNullReverse(scan)
       THEN Set(c, [req[c] EXCEPT !.pc = "rollback", !.local = <<>>])
       ELSE LET rows == RouteRowsV1(scan, req[c].local.fromNodeId, req[c].to)
                used == { e \in VisibleEdges(c) : \E i \in 1..Len(rows) : rows[i].id = e.id }
            IN IF rows = <<>>
               THEN Set(c, [req[c] EXCEPT !.pc = "commit", !.route = NULL, !.local = <<>>])
               ELSE Set(c, [req[c] EXCEPT !.pc = "merge", !.local = [rows |-> rows],
                                          !.foreign = @ \cup Foreign(used, req[c].rid)])
  /\ UNCHANGED <<tables, calls, pure>>

\* The merge query and the return of the first version.
MergeV1(c) ==
  /\ req[c].pc = "merge"
  /\ \E flip \in BOOLEAN :
       Set(c, [req[c] EXCEPT !.pc = "commit", !.local = <<>>,
                             !.route = Some(FindRouteResultV1(req[c].local.rows, req[c].profile, flip))])
  /\ UNCHANGED <<tables, calls, pure>>

\* getNearestNodeInfo of resolveStartNode (second version).
NearestV2(c) ==
  /\ req[c].pc = "nearest"
  /\ \E nearest \in GetNearestNodeInfo(VisibleNodes(c), req[c].from[1], req[c].from[2]) :
       IF NeedsEntry(nearest)
       THEN Set(c, [req[c] EXCEPT !.pc = "entry", !.local = [nearest |-> nearest]])
       ELSE Set(c, [req[c] EXCEPT !.pc = "route",
                                  !.local = [startInfo |-> ResolveStartNode(nearest, NULL)],
                                  !.foreign = @ \cup Foreign({RowById(VisibleNodes(c), nearest.id)}, req[c].rid)])
  /\ UNCHANGED <<tables, calls, pure>>

\* getNearestEntryNodeInfo of resolveStartNode.
EntryV2(c) ==
  /\ req[c].pc = "entry"
  /\ \E entry \in GetNearestEntryNodeInfo(VisibleNodes(c), req[c].from[1], req[c].from[2]) :
       LET startInfo == ResolveStartNode(req[c].local.nearest, entry)
       IN Set(c, [req[c] EXCEPT !.pc = "route", !.local = [startInfo |-> startInfo],
                                !.foreign = @ \cup Foreign({RowById(VisibleNodes(c), startInfo.id)}, req[c].rid)])
  /\ UNCHANGED <<tables, calls, pure>>

\* resolveDestination (an integer is taken as the node id),
\* routeFromNodeToNode and the assembly of the result.
RouteV2(c) ==
  /\ req[c].pc = "route"
  /\ \E scan \in ScanOrders(VisibleEdges(c)), flip \in BOOLEAN :
       LET solver == RouteCTE(scan, req[c].local.startInfo.id, req[c].to)
           used == { e \in VisibleEdges(c) : \E i \in 1..Len(solver) : solver[i].edge = e.id }
           row == RouteFromNodeToNode(scan, req[c].local.startInfo.id, req[c].to, flip)
       IN Set(c, [req[c] EXCEPT !.pc = "commit", !.local = <<>>,
                                !.route = Some(FindRouteResult(row, req[c].profile)),
                                !.foreign = @ \cup Foreign(used, req[c].rid)])
  /\ UNCHANGED <<tables, calls, pure>>

\* withTransaction: the callback returned.
Commit(c) ==
  /\ req[c].pc = "commit"
  /\ temple_nodes' = temple_nodes \cup req[c].tx_nodes
  /\ temple_edges' = temple_edges \cup req[c].tx_edges
  /\ Set(c, [req[c] EXCEPT !.pc = "respond", !.tx_nodes = {}, !.tx_edges = {}])
  /\ UNCHANGED <<others, edges, temple_features, node_seq, edge_seq, calls, pure>>

\* withTransaction: the callback threw; the handler answers 500.
Rollback(c) ==
  /\ req[c].pc = "rollback"
  /\ Set(c, [pc |-> "done", rid |-> req[c].rid, ver |-> req[c].ver, foreign |-> req[c].foreign,
             response |-> ErrorResponse("Unexpected Null value in column reverse_cost")])
  /\ UNCHANGED <<tables, calls, pure>>

\* The rest of getRoute and the answer of the handler.
Respond(c) ==
  /\ req[c].pc = "respond"
  /\ Set(c, [pc |-> "done", rid |-> req[c].rid, ver |-> req[c].ver, foreign |-> req[c].foreign,
             response |-> IF req[c].ver = "v1" THEN GetRouteResponseV1(req[c].route)
                          ELSE GetRouteResponse(req[c].route)])
  /\ UNCHANGED <<tables, calls, pure>>

\* The connection is free for the next request.
Finish(c) ==
  /\ req[c].pc = "done"
  /\ Set(c, Idle)
  /\ UNCHANGED <<tables, calls, pure>>

Next ==
  \E c \in Conns :
    \/ Start(c)
    \/ Snap(c)
    \/ InsertNode(c)
    \/ EdgeQuery(c)
    \/ ConnectSource(c)
    \/ ConnectTarget(c)
    \/ DijkstraV1(c)
    \/ MergeV1(c)
    \/ NearestV2(c)
    \/ EntryV2(c)
    \/ RouteV2(c)
    \/ Commit(c)
    \/ Rollback(c)
    \/ Respond(c)
    \/ Finish(c)

Spec == Init /\ [][Next]_vars

-----------------------------------------------------------------------------
\* C3: no step of a route request changes the stored nodes or edges.
C3_RoutingNeverMutatesGraph ==
  [][temple_nodes' = temple_nodes /\ temple_edges' = temple_edges]_vars

\* C4: no request snaps to, starts from or routes over a node or edge that
\* another request inserted.
C4_NoForeignVirtualRead ==
  \A c \in Conns : req[c].pc # "idle" => req[c].foreign = {}


-----------------------------------------------------------------------------
\* C11: the geometry of a returned route is one polyline in travel
\* direction: it starts at the position of the start node, ends at the
\* position of the destination node, and repeats no vertex at a joint.
C11_GeometryInTravelDirection ==
  RouteFound =>
    LET line == pure.route.features[1].geometry.coordinates
    IN /\ line[1] = NodePos(temple_nodes, pure.startInfo.id)
       /\ line[Len(line)] = NodePos(temple_nodes, pure.to)
       /\ \A i \in 1..(Len(line) - 1) : line[i] # line[i + 1]


-----------------------------------------------------------------------------
(* Specification of the pure computations of the route assembler and of    *)
(* the elevation projector, applied to drawn arguments.                     *)

\* Route lengths in whole metres range over 0..MaxMeters.
MaxMeters == 135

\* The profiles the validator admits ("walking", "accessible"), the other
\* profiles secondsFromMeters names, and one it does not name.
AllProfiles == {"walking", "accessible", "wheelchair", "guided", "cycling"}

InitCalc ==
  /\ NoOthers
  /\ temple_nodes = {}
  /\ temple_edges = {}
  /\ edges = {}
  /\ temple_features = {}
  /\ node_seq = 0
  /\ edge_seq = 0
  /\ req = <<>>
  /\ calls = 0
  /\ pure = NoCall

\* secondsFromMeters(m, profile)
SecondsFromMetersCall ==
  /\ pure = NoCall
  /\ \E m \in 0..MaxMeters, profile \in AllProfiles :
      /\ pure' = [op |-> "secondsFromMeters", m |-> m, profile |-> profile,
                  duration_s |-> secondsFromMeters(m, profile)]
  /\ UNCHANGED <<tables, req, calls>>

\* The speed, in cm/s, that goes with a profile: 1.35 m/s walking, 1.10 m/s
\* wheelchair and accessible, 1.20 m/s guided, 1.30 m/s otherwise.
StatedSpeed(profile) ==
  CASE profile = "walking" -> 135
    [] profile \in {"wheelchair", "accessible"} -> 110
    [] profile = "guided" -> 120
    [] OTHER -> 130

\* d is m / v rounded to the nearest whole number, a half rounding up
\* (m in metres, v in cm/s).
IsRounded(d, m, v) == 2 * d * v - v <= 200 * m /\ 200 * m < 2 * d * v + v

\* C12: duration_s is distance_m divided by the speed of the profile and
\* rounded to the nearest whole second, accessible and wheelchair both at
\* 1.10 m/s.
C12_DurationAtProfileSpeed ==
  pure.op = "secondsFromMeters" =>
    IsRounded(pure.duration_s, pure.m, StatedSpeed(pure.profile))


-----------------------------------------------------------------------------
(* JavaScript numbers are binary floating-point numbers: the result of an   *)
(* operation is the exact result rounded to the nearest number that has     *)
(* MantissaBits significant bits, a tie going to the even mantissa.  A      *)
(* number is held as a whole count of units of 2^-FracBits.                 *)

MantissaBits == 3

FracBits == 5

RECURSIVE Pow2(_)
Pow2(n) == IF n = 0 THEN 1 ELSE 2 * Pow2(n - 1)

One == Pow2(FracBits)

\* The spacing of the floating-point numbers around p / q (0 <= p, 0 < q).
RECURSIVE Ulp(_, _, _)
Ulp(p, q, e) == IF p < Pow2(MantissaBits) * e * q THEN e ELSE Ulp(p, q, 2 * e)

\* p / q rounded to the nearest floating-point number, ties to even.
RoundNearestEven(p, q) ==
  LET a == Abs(p)
      d == q * Ulp(a, q, 1)
      n == a \div d
      r == a % d
      up == 2 * r > d \/ (2 * r = d /\ n % 2 = 1)
      v == (IF up THEN n + 1 ELSE n) * Ulp(a, q, 1)
  IN IF p < 0 THEN 0 - v ELSE v

FAdd(a, b) == RoundNearestEven(a + b, 1)

FSub(a, b) == RoundNearestEven(a - b, 1)

FMul(a, b) == RoundNearestEven(a * b, One)

\* i / j for whole numbers i and j.
FDivInt(i, j) == RoundNearestEven(i * One, j)

\* v is a floating-point number.
IsFloat(v) == RoundNearestEven(v, 1) = v

-----------------------------------------------------------------------------
(* to3DGeometry(geom, { z, zStart, zEnd }).  A coordinate tuple is <<x, y>>  *)
(* or <<x, y, z>>; an option that was not given is NULL.                    *)

NoOptions == [z |-> NULL, zStart |-> NULL, zEnd |-> NULL]

\* Levels of arrays around the coordinate tuples of a geometry type.
Nesting(type) ==
  CASE type = "Point" -> 0
    [] type \in {"LineString", "MultiPoint"} -> 1
    [] type \in {"Polygon", "MultiLineString"} -> 2
    [] OTHER -> 3

\* Variant: z is pushed onto the tuple, whatever its length.
RECURSIVE addZConstAppend(_, _, _)
addZConstAppend(coords, zConst, depth) ==
  IF depth = 0
  THEN Append(coords, COALESCE(zConst, 0))
  ELSE [i \in 1..Len(coords) |-> addZConstAppend(coords[i], zConst, depth - 1)]

\* addZConst(coords, zConst): zConst ?? 0 for a tuple without z, and the
\* same for every element of nested coordinates.
RECURSIVE addZConst(_, _, _)
addZConst(coords, zConst, depth) ==
  IF depth = 0
  THEN <<coords[1], coords[2], IF Len(coords) >= 3 THEN coords[3] ELSE COALESCE(zConst, 0)>>
  ELSE [i \in 1..Len(coords) |-> addZConst(coords[i], zConst, depth - 1)]

\* Variant: the interpolated z replaces the z of a vertex that has one.
addZInterpolatedLineOverwrite(coords, start, end) ==
  LET z0 == COALESCE(start, 0)
      z1 == COALESCE(end, z0)
      n == Len(coords)
  IN [k \in 1..n |->
        LET t == IF n = 1 THEN 0 ELSE FDivInt(k - 1, n - 1)
        IN <<coords[k][1], coords[k][2], FAdd(z0, FMul(FSub(z1, z0), t))>>]

\* addZInterpolatedLine(coords, start, end): z0 + (z1 - z0) * (i / (n - 1))
\* for the vertex of index i without z.
addZInterpolatedLine(coords, start, end) ==
  LET z0 == COALESCE(start, 0)
      z1 == COALESCE(end, z0)
      n == Len(coords)
  IN [k \in 1..n |->
        LET t == IF n = 1 THEN 0 ELSE FDivInt(k - 1, n - 1)
            zi == FAdd(z0, FMul(FSub(z1, z0), t))
        IN <<coords[k][1], coords[k][2], IF Len(coords[k]) >= 3 THEN coords[k][3] ELSE zi>>]

to3DGeometry(geom, opts) ==
  IF geom.type = "LineString" /\ (opts.zStart # NULL \/ opts.zEnd # NULL)
  THEN [geom EXCEPT !.coordinates = addZInterpolatedLine(geom.coordinates, opts.zStart, opts.zEnd)]
  ELSE [geom EXCEPT !.coordinates = addZConst(geom.coordinates, opts.z, Nesting(geom.type))]


\* Elevations are whole floating-point numbers up to MaxElev.
MaxElev == 10

\* A line has up to MaxVertices vertices.
MaxVertices == 3

Elevations == { v * One : v \in { w \in 0..MaxElev : IsFloat(w) } }

\* The z of a vertex that carries one.
OwnZ == 5 * One

\* Vertex k of a drawn line, with or without z.
Vertices2or3(k) == { <<k, 0>>, <<k, 0, OwnZ>> }

RECURSIVE LinesOfLen(_)
LinesOfLen(n) ==
  IF n = 0 THEN { <<>> }
  ELSE { Append(l, v) : l \in LinesOfLen(n - 1), v \in Vertices2or3(n) }

CalcLines == UNION { LinesOfLen(n) : n \in 0..MaxVertices }

CalcGeoms ==
  { [type |-> "Point", coordinates |-> v] : v \in Vertices2or3(1) } \cup
  { [type |-> t, coordinates |-> l] : t \in {"LineString", "MultiPoint"}, l \in CalcLines } \cup
  { [type |-> "MultiLineString", coordinates |-> <<l, m>>] : l \in LinesOfLen(2), m \in LinesOfLen(1) }

CalcOptions ==
  { [z |-> z, zStart |-> NULL, zEnd |-> NULL] : z \in {NULL, Some(One)} } \cup
  { [z |-> NULL, zStart |-> s, zEnd |-> e] : s \in {NULL} \cup { Some(v) : v \in Elevations },
                                             e \in {NULL} \cup { Some(v) : v \in Elevations } }

\* to3DGeometry(geom, options); `twice` is to3DGeometry applied to its result
\* with the same options.
To3DGeometryCall ==
  /\ pure = NoCall
  /\ \E geom \in CalcGeoms, opts \in CalcOptions :
      /\ pure' = [op |-> "to3DGeometry", geom |-> geom, opts |-> opts,
                  out |-> to3DGeometry(geom, opts),
                  twice |-> to3DGeometry(to3DGeometry(geom, opts), opts)]
  /\ UNCHANGED <<tables, req, calls>>

NextCalc == SecondsFromMetersCall \/ To3DGeometryCall

SpecCalc == InitCalc /\ [][NextCalc]_vars

\* to3DGeometry was given a line and both elevations.
Interpolated ==
  /\ pure.op = "to3DGeometry"
  /\ pure.geom.type = "LineString"
  /\ pure.geom.coordinates # <<>>
  /\ pure.opts.zStart # NULL
  /\ pure.opts.zEnd # NULL

\* The sequence of numbers zs never falls or never rises.
Monotonic(zs) ==
  \/ \A i \in 1..(Len(zs) - 1) : zs[i] <= zs[i + 1]
  \/ \A i \in 1..(Len(zs) - 1) : zs[i] >= zs[i + 1]

\* C13: a line projected with a start and an end elevation has the start
\* elevation at its first vertex, the end elevation at its last vertex, and
\* z values that are monotonic from the one to the other.
C13_EndpointsExactAndMonotonic ==
  Interpolated =>
    LET out == pure.out.coordinates
    IN /\ out[1][3] = pure.opts.zStart[1]
       /\ out[Len(out)][3] = pure.opts.zEnd[1]
       /\ Monotonic([i \in 1..Len(out) |-> out[i][3]])


\* The coordinate tuples of nested coordinates, in order.
RECURSIVE Flatten(_, _)
Flatten(coords, depth) ==
  IF depth = 0 THEN <<coords>>
  ELSE IF coords = <<>> THEN <<>>
  ELSE Flatten(Head(coords), depth - 1) \o Flatten(Tail(coords), depth)

\* C14: to3DGeometry keeps the vertices of the geometry in place, and a
\* vertex that comes with a third coordinate leaves with the same one,
\* whatever the type of the geometry and whatever elevations are given.
C14_ExplicitElevationKept ==
  pure.op = "to3DGeometry" =>
    LET in == Flatten(pure.geom.coordinates, Nesting(pure.geom.type))
        out == Flatten(pure.out.coordinates, Nesting(pure.geom.type))
    IN /\ Len(out) = Len(in)
       /\ \A i \in 1..Len(in) :
            /\ Len(out[i]) = 3
            /\ out[i][1] = in[i][1] /\ out[i][2] = in[i][2]
            /\ Len(in[i]) >= 3 => out[i][3] = in[i][3]

\* A line was interpolated between two elevations, its middle vertex came
\* with a z that the interpolation would not have given, and left with it.
C14_Witness ==
  /\ Interpolated
  /\ Len(pure.geom.coordinates) = 3
  /\ Len(pure.geom.coordinates[1]) = 2
  /\ Len(pure.geom.coordinates[2]) = 3
  /\ pure.opts.zStart[1] < OwnZ /\ pure.opts.zEnd[1] < OwnZ
  /\ pure.out.coordinates[2][3] = OwnZ
  /\ pure.out.coordinates[1][3] = pure.opts.zStart[1]


-----------------------------------------------------------------------------
(* TempleFeaturesRepository: paginated queries over temple_features joined  *)
(* to temple_nodes.  A filter that was not given is NULL.                   *)

Min(a, b) == IF a <= b THEN a ELSE b

Max(a, b) == IF a >= b THEN a ELSE b

\* FROM temple_features f JOIN temple_nodes n ON f.node_id = n.id
FeaturesJoinNodes(features, nodes) ==
  { [id |-> p[1].id, type |-> p[1].type, node_id |-> p[1].node_id, x |-> p[2].x, y |-> p[2].y] :
      p \in { fn \in features \X nodes : fn[2].id = fn[1].node_id } }

\* ST_Intersects(n.geom, ST_MakeEnvelope(minLon, minLat, maxLon, maxLat, 4326))
InEnvelope(r, bbox) ==
  bbox[1] <= r.x /\ r.x <= bbox[3] /\ bbox[2] <= r.y /\ r.y <= bbox[4]

\* LIMIT limit OFFSET offset over the ordered rows.
LimitOffset(rows, limit, offset) ==
  [i \in 1..Max(0, Min(limit, Len(rows) - offset)) |-> rows[offset + i]]

\* Variant: hasPreviousPage tells that a page before this one has items.
PaginationPreviousHasItems(page, limit, totalItems) ==
  LET totalPages == (totalItems + limit - 1) \div limit
  IN [currentPage |-> page, totalPages |-> totalPages, totalItems |-> totalItems,
      itemsPerPage |-> limit, hasNextPage |-> page < totalPages,
      hasPreviousPage |-> page > 1 /\ totalItems > 0]

\* The pagination object: totalPages = Math.ceil(totalItems / limit).
Pagination(page, limit, totalItems) ==
  LET totalPages == (totalItems + limit - 1) \div limit
  IN [currentPage |-> page, totalPages |-> totalPages, totalItems |-> totalItems,
      itemsPerPage |-> limit, hasNextPage |-> page < totalPages,
      hasPreviousPage |-> page > 1]

\* findAll(filters, pagination): type, q and bbox are the filters it reads.
\* Both joined tables have a column name, so the q condition, which names it
\* unqualified, makes both statements fail.
FindAll(features, nodes, filters, page, limit) ==
  LET rows == { r \in FeaturesJoinNodes(features, nodes) :
                  /\ filters.type # NULL => r.type = filters.type[1]
                  /\ filters.bbox # NULL => InEnvelope(r, filters.bbox[1]) }
      data == LimitOffset(SortById(rows), limit, (page - 1) * limit)
  IN IF filters.q # NULL
     THEN [throws |-> "column reference \"name\" is ambiguous"]
     ELSE [data |-> [i \in 1..Len(data) |->
                       [id |-> data[i].id, type |-> data[i].type,
                        geom |-> [type |-> "Point", coordinates |-> <<data[i].x, data[i].y>>]]],
           pagination |-> Pagination(page, limit, Cardinality(rows))]

\* The orders of the rows that ORDER BY ST_DistanceSphere(n.geom, point)
\* allows: rows at the same distance come in any order.
RECURSIVE OrdersByDistance(_, _, _)
OrdersByDistance(rows, lon, lat) ==
  IF rows = {} THEN { <<>> }
  ELSE UNION { { <<r>> \o t : t \in OrdersByDistance(rows \ {r}, lon, lat) } :
                 r \in { m \in rows : \A o \in rows :
                           DistanceM2(m.x, m.y, lon, lat) <= DistanceM2(o.x, o.y, lon, lat) } }

\* The rows findNearest keeps: `if (type)`, `if (radius)`: a radius of 0
\* adds no condition.
NearestWhere(features, nodes, filters) ==
  { r \in FeaturesJoinNodes(features, nodes) :
      /\ filters.type # NULL => r.type = filters.type[1]
      /\ (filters.radius # NULL /\ filters.radius[1] # 0) =>
           DistanceM2(r.x, r.y, filters.lon, filters.lat) <= filters.radius[1] * filters.radius[1] }

\* findNearest(filters, pagination), the data statement having read the
\* rows in the order `order`.
FindNearest(features, nodes, filters, page, limit, order) ==
  LET data == LimitOffset(order, limit, (page - 1) * limit)
  IN [data |-> [i \in 1..Len(data) |->
                  [id |-> data[i].id, type |-> data[i].type,
                   geom |-> [type |-> "Point", coordinates |-> <<data[i].x, data[i].y>>],
                   distance_m2 |-> DistanceM2(data[i].x, data[i].y, filters.lon, filters.lat)]],
      pagination |-> Pagination(page, limit, Cardinality(NearestWhere(features, nodes, filters)))]


-----------------------------------------------------------------------------
(* The handlers of GET /features, /features/nearest and /navigation/route:  *)
(* validation, controller, repository, response.  A query parameter is NULL *)
(* (not sent) or Some of its text: the numeral of a whole number, or text   *)
(* that is no numeral.                                                      *)

Num(v) == Some([k |-> "num", n |-> v])

Text(t) == Some([k |-> "text", t |-> t])

\* The text of a tuple of numerals, "a,b" or "a,b,c,d".
Tuple(c) == Some([k |-> "tuple", c |-> c])

Val(raw) == CASE raw.k = "num" -> raw.n [] raw.k = "text" -> raw.t [] OTHER -> raw.c

\* .optional(): the rule applies when the parameter was sent.
Optional(p, ok) == p = NULL \/ ok

\* isInt({ min, max }) / isFloat({ min, max })
IsNumberIn(p, min, max) == p # NULL /\ p[1].k = "num" /\ min <= p[1].n /\ p[1].n <= max

\* isInt({ min }) / isFloat({ min })
IsNumberFrom(p, min) == p # NULL /\ p[1].k = "num" /\ min <= p[1].n

\* The texts the patterns of bbox and near match.
IsTuple(p, n) == p # NULL /\ p[1].k = "tuple" /\ Len(p[1].c) = n

MaxLimitFeatures == 100

MaxLimitNearest == 50

DefaultLimitFeatures == 20

DefaultLimitNearest == 10

\* validate("getFeatures")
ValidGetFeatures(query) ==
  /\ Optional(query.bbox, IsTuple(query.bbox, 4))
  /\ Optional(query.near, IsTuple(query.near, 2))
  /\ Optional(query.radius, IsNumberFrom(query.radius, 0))
  /\ Optional(query.page, IsNumberFrom(query.page, 1))
  /\ Optional(query.limit, IsNumberIn(query.limit, 1, MaxLimitFeatures))

\* validate("getNearestFeatures")
ValidGetNearestFeatures(query) ==
  /\ IsNumberIn(query.lat, -90, 90)
  /\ IsNumberIn(query.lon, -180, 180)
  /\ Optional(query.radius, IsNumberFrom(query.radius, 0))
  /\ Optional(query.page, IsNumberFrom(query.page, 1))
  /\ Optional(query.limit, IsNumberIn(query.limit, 1, MaxLimitNearest))

\* Variant: the profile is not checked.
ValidGetRouteAnyProfile(query) ==
  /\ IsNumberIn(query.fromLat, -90, 90)
  /\ IsNumberIn(query.fromLon, -180, 180)
  /\ IsNumberFrom(query.toNodeId, 1)

\* validate("getRoute")
ValidGetRoute(query) ==
  /\ IsNumberIn(query.fromLat, -90, 90)
  /\ IsNumberIn(query.fromLon, -180, 180)
  /\ IsNumberFrom(query.toNodeId, 1)
  /\ Optional(query.profile, query.profile # NULL /\ Val(query.profile[1]) \in {"walking", "accessible"})

\* throw new CustomError({ message: "Validation failed", statusCode: 400 }),
\* answered by failedResponse.
ValidationFailed == [code |-> 400, status |-> "error", message |-> "Validation failed"]

\* `x ? parse(x) : d` and `if (x) filters.x = parse(x)`: the value of a
\* numeral, d when the parameter was not sent.
Parsed(p, d) == IF p = NULL THEN d ELSE Val(p[1])

\* `if (x) filters.x = x`
Given(p) == IF p = NULL THEN NULL ELSE Some(Val(p[1]))

\* TemplesControllerV2.getFeatures
GetFeatures(features, nodes, query) ==
  LET filters == [type |-> Given(query.type), q |-> Given(query.q), bbox |-> Given(query.bbox),
                  near |-> Given(query.near), radius |-> Given(query.radius)]
      found == FindAll(features, nodes, filters,
                       Parsed(query.page, 1), Parsed(query.limit, DefaultLimitFeatures))
  IN IF "throws" \in DOMAIN found THEN ErrorResponse(found.throws)
     ELSE [code |-> 200, status |-> "success", message |-> "Features fetched",
           data |-> [type |-> "FeatureCollection",
                     features |-> [i \in 1..Len(found.data) |->
                                     [type |-> "Feature",
                                      geometry |-> to3DGeometry(found.data[i].geom, NoOptions),
                                      properties |-> [id |-> found.data[i].id, type |-> found.data[i].type]]],
                     pagination |-> found.pagination]]

\* TemplesControllerV2.getNearestFeatures
GetNearestFeatures(features, nodes, query, order) ==
  LET filters == [lat |-> query.lat[1].n, lon |-> query.lon[1].n,
                  type |-> Given(query.type), radius |-> Given(query.radius)]
      found == FindNearest(features, nodes, filters,
                           Parsed(query.page, 1), Parsed(query.limit, DefaultLimitNearest), order)
  IN [code |-> 200, status |-> "success", message |-> "Nearest features fetched",
      data |-> [type |-> "FeatureCollection",
                features |-> [i \in 1..Len(found.data) |->
                                [type |-> "Feature",
                                 geometry |-> to3DGeometry(found.data[i].geom, NoOptions),
                                 properties |-> [id |-> found.data[i].id, type |-> found.data[i].type,
                                                 distance_m2 |-> found.data[i].distance_m2]]],
                pagination |-> found.pagination]]


\* resolveDestination(to, toFeaturesId): the node of the feature, or the
\* node id itself.
ResolveDestination(features, to, toFeaturesId) ==
  IF toFeaturesId # NULL
  THEN LET rows == { f \in features : f.id = toFeaturesId[1] }
       IN IF rows = {} THEN [throws |-> "Feature not found"]
          ELSE [id |-> (CHOOSE f \in rows : TRUE).node_id]
  ELSE IF to # NULL THEN [id |-> to[1]]
  ELSE [throws |-> "Invalid destination. Provide toFeaturesId or to=node:<id>/nodeId"]

\* The tables have features 1..n for n up to MaxFeatures.
MaxFeatures == 4

\* Pages and page sizes asked for go up to MaxPage and MaxLimit.
MaxPage == 3

MaxLimit == 2

\* Feature k: feature 1 on node 3, features 2 and 3 on node 1, feature 4 on
\* node 2, and so on.
FeatureRow(k) ==
  [id |-> k,
   node_id |-> CASE k % 4 = 1 -> 3 [] k % 4 \in {2, 3} -> 1 [] OTHER -> 2,
   type |-> IF k % 4 = 3 THEN "relief" ELSE "stupa"]

FeatureTables == { { FeatureRow(k) : k \in 1..n } : n \in 0..MaxFeatures }

\* The edges 1-2 and 2-3, each at the cost of its length and two-way.
HttpEdges ==
  { r \in EdgeRows(1, 1, 2) \cup EdgeRows(2, 2, 3) : r.cost = ST_Length(r.geom) /\ r.reverse_cost = NULL }

Latitudes == {NULL, Num(0), Num(2), Num(91), Text("north")}

Longitudes == {NULL, Num(0), Num(2), Num(181), Text("east")}

Radii == {NULL, Num(0), Num(6), Num(-1)}

Pages == {NULL, Text("last")} \cup { Num(v) : v \in 0..MaxPage }

Limits == {NULL, Text("all"), Num(MaxLimitFeatures + 1), Num(MaxLimitNearest + 1)} \cup { Num(v) : v \in 0..MaxLimit }

FeaturesQueries ==
  [type : {NULL, Text("stupa")}, q : {NULL, Text("gate")},
   bbox : {NULL, Tuple(<<0, 0, 2, 1>>)},
   near : {NULL, Tuple(<<0, 0>>), Text("here")},
   radius : Radii, page : Pages, limit : Limits]

NearestQueries ==
  [lat : Latitudes, lon : Longitudes, type : {NULL, Text("stupa")},
   radius : Radii, page : Pages, limit : Limits]

RouteQueries ==
  [fromLat : Latitudes, fromLon : Longitudes,
   toNodeId : {NULL, Num(0), Num(1), Num(3), Num(9), Text("gate")},
   profile : {NULL, Text("walking"), Text("accessible"), Text("guided"), Text("flying")}]

InitHttp ==
  /\ NoOthers
  /\ temple_nodes = RouteNodes
  /\ temple_edges = HttpEdges
  /\ edges = {}
  /\ temple_features \in FeatureTables
  /\ node_seq = 3
  /\ edge_seq = 2
  /\ req = <<>>
  /\ calls = 0
  /\ pure = NoCall

\* GET /features; `again` is the answer to the same request sent once more.
FeaturesRequest ==
  /\ pure = NoCall
  /\ \E query \in FeaturesQueries :
      /\ pure' = IF ~ValidGetFeatures(query)
                 THEN [op |-> "getFeatures", query |-> query, queries |-> <<>>, response |-> ValidationFailed]
                 ELSE [op |-> "getFeatures", query |-> query, queries |-> <<"findAll">>,
                       response |-> GetFeatures(temple_features, temple_nodes, query),
                       again |-> GetFeatures(temple_features, temple_nodes, query)]
  /\ UNCHANGED <<tables, req, calls>>

\* GET /features/nearest; `again` is the answer to the same request sent once
\* more.
NearestRequest ==
  /\ pure = NoCall
  /\ \E query \in NearestQueries :
      IF ~ValidGetNearestFeatures(query)
      THEN pure' = [op |-> "getNearestFeatures", query |-> query, queries |-> <<>>,
                    response |-> ValidationFailed]
      ELSE LET orders == OrdersByDistance(
                           NearestWhere(temple_features, temple_nodes,
                                        [lat |-> query.lat[1].n, lon |-> query.lon[1].n,
                                         type |-> Given(query.type), radius |-> Given(query.radius)]),
                           query.lon[1].n, query.lat[1].n)
           IN \E order \in orders, orderAgain \in orders :
                pure' = [op |-> "getNearestFeatures", query |-> query, queries |-> <<"findNearest">>,
                         response |-> GetNearestFeatures(temple_features, temple_nodes, query, order),
                         again |-> GetNearestFeatures(temple_features, temple_nodes, query, orderAgain)]
  /\ UNCHANGED <<tables, req, calls>>

\* GET /navigation/route
RouteRequest ==
  /\ pure = NoCall
  /\ \E query \in RouteQueries :
      /\ IF ~ValidGetRoute(query)
         THEN pure' = [op |-> "getRouteRequest", query |-> query, queries |-> <<>>,
                       response |-> ValidationFailed]
         ELSE LET lon == query.fromLon[1].n
                  lat == query.fromLat[1].n
                  profile == Parsed(query.profile, "walking")
              IN \E nearest \in GetNearestNodeInfo(temple_nodes, lon, lat) :
                   \E entry \in (IF NeedsEntry(nearest) THEN GetNearestEntryNodeInfo(temple_nodes, lon, lat) ELSE {NULL}) :
                     \E scan \in ScanOrders(temple_edges), flip \in BOOLEAN :
                       LET dest == ResolveDestination(temple_features, Some(query.toNodeId[1].n), NULL)
                           row == RouteFromNodeToNode(scan, ResolveStartNode(nearest, entry).id, dest.id, flip)
                       IN pure' = [op |-> "getRouteRequest", query |-> query, queries |-> <<"findRoute">>,
                                   response |-> GetRouteResponse(Some(FindRouteResult(row, profile)))]
  /\ UNCHANGED <<tables, req, calls>>

\* findRoute({ from, toFeaturesId, profile }) and what the handler of
\* GET /navigation/route answers for its outcome.
FindRouteToFeatureCall ==
  /\ pure = NoCall
  /\ \E pt \in RoutePoints, toFeaturesId \in 1..(MaxFeatures + 1) :
      /\ \E nearest \in GetNearestNodeInfo(temple_nodes, pt[1], pt[2]) :
           \E entry \in (IF NeedsEntry(nearest) THEN GetNearestEntryNodeInfo(temple_nodes, pt[1], pt[2]) ELSE {NULL}) :
             \E scan \in ScanOrders(temple_edges), flip \in BOOLEAN :
               LET dest == ResolveDestination(temple_features, NULL, Some(toFeaturesId))
               IN pure' = IF "throws" \in DOMAIN dest
                          THEN [op |-> "findRoute", from |-> pt, toFeaturesId |-> toFeaturesId,
                                throws |-> dest.throws, response |-> ErrorResponse(dest.throws)]
                          ELSE [op |-> "findRoute", from |-> pt, toFeaturesId |-> toFeaturesId,
                                toNodeId |-> dest.id,
                                response |-> GetRouteResponse(Some(FindRouteResult(
                                  RouteFromNodeToNode(scan, ResolveStartNode(nearest, entry).id, dest.id, flip),
                                  "walking")))]
  /\ UNCHANGED <<tables, req, calls>>

NextHttp == FeaturesRequest \/ NearestRequest \/ RouteRequest \/ FindRouteToFeatureCall

SpecHttp == InitHttp /\ [][NextHttp]_vars


-----------------------------------------------------------------------------
\* A feature query was answered with its items and pagination.
Listed == pure.op \in {"getFeatures", "getNearestFeatures"} /\ pure.response.code = 200

Envelope == pure.response.data.pagination

Items == pure.response.data.features

\* The reference point <<lon, lat>> of the query, NULL if it has none:
\* lat and lon of the nearest query, near = "lat,lon" of the features query.
ReferencePoint ==
  IF pure.op = "getNearestFeatures" THEN Some(<<pure.query.lon[1].n, pure.query.lat[1].n>>)
  ELSE IF pure.query.near # NULL THEN Some(<<pure.query.near[1].c[2], pure.query.near[1].c[1]>>)
  ELSE NULL

\* Squared distance in metres of an item from the reference point.
ItemDistance2(item) ==
  DistanceM2(item.geometry.coordinates[1], item.geometry.coordinates[2],
             ReferencePoint[1][1], ReferencePoint[1][2])

\* C15: in the pagination of a feature query, hasPreviousPage implies
\* (currentPage - 1) * itemsPerPage < totalItems.
C15_PreviousPageWithinItems ==
  Listed =>
    (Envelope.hasPreviousPage => (Envelope.currentPage - 1) * Envelope.itemsPerPage < Envelope.totalItems)

\* C16: in the pagination of a feature query, hasNextPage is false exactly
\* when currentPage equals totalPages.
C16_NoNextPageIffLastPage ==
  Listed => (~Envelope.hasNextPage <=> Envelope.currentPage = Envelope.totalPages)

\* C17: the items of a feature query come ascending by distance from the
\* reference point when the query has one, ascending by id when it has
\* none, and the same request sent again gets the same items in the same
\* order.
C17_StableOrder ==
  Listed =>
    /\ ReferencePoint # NULL =>
         \A i \in 1..(Len(Items) - 1) : ItemDistance2(Items[i]) <= ItemDistance2(Items[i + 1])
    /\ ReferencePoint = NULL =>
         \A i \in 1..(Len(Items) - 1) : Items[i].properties.id < Items[i + 1].properties.id
    /\ pure.again = pure.response

\* The features that match the filters of the query: type, bounding box,
\* and radius around the reference point.
Matching ==
  { r \in FeaturesJoinNodes(temple_features, temple_nodes) :
      /\ pure.query.type # NULL => r.type = pure.query.type[1].t
      /\ (pure.op = "getFeatures" /\ pure.query.bbox # NULL) => InEnvelope(r, pure.query.bbox[1].c)
      /\ (ReferencePoint # NULL /\ pure.query.radius # NULL) =>
           DistanceM2(r.x, r.y, ReferencePoint[1][1], ReferencePoint[1][2])
             <= pure.query.radius[1].n * pure.query.radius[1].n }

\* C18: when a feature query has a reference point and a radius, every
\* item lies within the radius of the reference point, and totalItems is
\* the number of features that match all the filters of the query.
C18_WithinRadiusAndCounted ==
  (Listed /\ ReferencePoint # NULL /\ pure.query.radius # NULL) =>
    /\ \A i \in 1..Len(Items) :
         ItemDistance2(Items[i]) <= pure.query.radius[1].n * pure.query.radius[1].n
    /\ Envelope.totalItems = Cardinality(Matching)


-----------------------------------------------------------------------------
\* A handler of the three endpoints has answered a request.
Handled == pure.op \in {"getFeatures", "getNearestFeatures", "getRouteRequest"}

\* The parameter was sent and is no numeral of a number in min..max.
BadNumber(p, min, max) == p # NULL /\ (p[1].k # "num" \/ p[1].n < min \/ p[1].n > max)

\* The parameter was sent and is no numeral of a number from min on.
BadNumberFrom(p, min) == p # NULL /\ (p[1].k # "num" \/ p[1].n < min)

\* The request has a malformed or out-of-range coordinate, a profile that
\* is none of walking, accessible, wheelchair and guided, a page that is no
\* positive number, or a limit that is no number from 1 to the bound of the
\* endpoint.
BadRequest ==
  CASE pure.op = "getRouteRequest" ->
         \/ BadNumber(pure.query.fromLat, -90, 90)
         \/ BadNumber(pure.query.fromLon, -180, 180)
         \/ (pure.query.profile # NULL
             /\ pure.query.profile[1].t \notin {"walking", "accessible", "wheelchair", "guided"})
    [] pure.op = "getNearestFeatures" ->
         \/ BadNumber(pure.query.lat, -90, 90)
         \/ BadNumber(pure.query.lon, -180, 180)
         \/ BadNumberFrom(pure.query.page, 1)
         \/ BadNumber(pure.query.limit, 1, MaxLimitNearest)
    [] pure.op = "getFeatures" ->
         \/ (pure.query.near # NULL /\ pure.query.near[1].k # "tuple")
         \/ BadNumberFrom(pure.query.page, 1)
         \/ BadNumber(pure.query.limit, 1, MaxLimitFeatures)
    [] OTHER -> FALSE

C20_UnknownFeatureIsNotFound ==
  (pure.op = "findRoute" /\ \A f \in temple_features : f.id # pure.toFeaturesId) =>
    pure.response.code = 404


-----------------------------------------------------------------------------
\* C22: the node the nearest-node query returns is at the least distance in
\* metres from the coordinate among all nodes, the distance it reports.
C22_NearestMinimisesMetres ==
  (pure.op = "resolveStartNode" /\ "nearest" \in DOMAIN pure) =>
    /\ pure.nearest.distance_m2 = DistanceM2(pure.nearest.lon, pure.nearest.lat, pure.lon, pure.lat)
    /\ \A n \in temple_nodes : pure.nearest.distance_m2 <= DistanceM2(n.x, n.y, pure.lon, pure.lat)

\* The name begins with "ENTRY", compared without regard to case.
HasEntryPrefix(name) ==
  Len(name) >= 5 /\ [i \in 1..5 |-> ToUpper(name[i])] = <<"E", "N", "T", "R", "Y">>

\* C23: when resolveStartNode looks for an entry node, it finds one exactly
\* when some node has a name that begins with "ENTRY" in any case, and the
\* node it finds has such a name.
C23_EntryIsPrefixMatch ==
  (pure.op = "resolveStartNode" /\ "nearest" \in DOMAIN pure /\ NeedsEntry(pure.nearest)) =>
    /\ pure.entry # NULL <=> \E n \in temple_nodes : HasEntryPrefix(n.name)
    /\ pure.entry # NULL => HasEntryPrefix(pure.entry[1].name)


-----------------------------------------------------------------------------
(* Specification of routeFromNodeToNode called from A to B and from B to A  *)
(* on a drawn graph whose edges all have reverse_cost = cost.               *)

\* Four nodes; the way 1-2-4 is 14 m long, the way 1-3-4 is 10 m long.
SymNodes ==
  { [id |-> 1, name |-> NameGate, x |-> 0, y |-> 0],
    [id |-> 2, name |-> NameGate, x |-> 2, y |-> 0],
    [id |-> 3, name |-> NameGate, x |-> 1, y |-> 1],
    [id |-> 4, name |-> NameGate, x |-> 2, y |-> 2] }

\* The edge id from s to t, at the cost of its length, of CheapCost or of
\* three times CheapCost, and the same cost backward.
SymEdgeRows(id, s, t) ==
  LET g == <<NodePos(SymNodes, s), NodePos(SymNodes, t)>>
  IN { [id |-> id, source |-> s, target |-> t, cost |-> c, reverse_cost |-> Some(c), geom |-> g] :
         c \in {ST_Length(g), CheapCost, 3 * CheapCost} }

SymGraphs ==
  { a \cup b \cup c \cup d :
      a \in {{}} \cup { {r} : r \in SymEdgeRows(1, 1, 2) },
      b \in {{}} \cup { {r} : r \in SymEdgeRows(2, 2, 4) },
      c \in {{}} \cup { {r} : r \in SymEdgeRows(3, 1, 3) },
      d \in {{}} \cup { {r} : r \in SymEdgeRows(4, 3, 4) } }

InitSym ==
  /\ NoOthers
  /\ temple_nodes = SymNodes
  /\ temple_edges \in SymGraphs
  /\ edges = {}
  /\ temple_features = {}
  /\ node_seq = 4
  /\ edge_seq = 4
  /\ req = <<>>
  /\ calls = 0
  /\ pure = NoCall

\* routeFromNodeToNode(a, b) and routeFromNodeToNode(b, a)
RoutePairCall ==
  /\ pure = NoCall
  /\ \E a \in 1..4, b \in 1..4 :
       \E scan \in ScanOrders(temple_edges), scanBack \in ScanOrders(temple_edges), flip \in BOOLEAN :
         pure' = [op |-> "routePair", a |-> a, b |-> b,
                  solver |-> RouteCTE(scan, a, b),
                  solverBack |-> RouteCTE(scanBack, b, a),
                  row |-> RouteFromNodeToNode(scan, a, b, flip),
                  rowBack |-> RouteFromNodeToNode(scanBack, b, a, flip)]
  /\ UNCHANGED <<tables, req, calls>>

NextSym == RoutePairCall

SpecSym == InitSym /\ [][NextSym]_vars

\* The cost the solver found for the way: agg_cost of its last row.
SolverCost(rows) == rows[Len(rows)].agg_cost

\* C25 as stated: on a graph whose edges cost the same in both directions,
\* the distance of the route from A to B is the distance of the route from
\* B to A, and there is a route one way exactly when there is one the other
\* way.
C25_DistanceSymmetric ==
  pure.op = "routePair" =>
    /\ pure.row.geometry = NULL <=> pure.rowBack.geometry = NULL
    /\ pure.row.distance_m = pure.rowBack.distance_m

\* C25 amended: on such a graph there is a route one way exactly when there
\* is one the other way, the cost the solver minimised is the same both
\* ways, and the distances are the same when every edge costs its length.
C25_CostSymmetric ==
  pure.op = "routePair" =>
    /\ pure.row.geometry = NULL <=> pure.rowBack.geometry = NULL
    /\ pure.solver = <<>> <=> pure.solverBack = <<>>
    /\ pure.solver # <<>> => SolverCost(pure.solver) = SolverCost(pure.solverBack)
    /\ (\A e \in temple_edges : e.cost = ST_Length(e.geom)) =>
         pure.row.distance_m = pure.rowBack.distance_m

\* Two ways of the same cost and of different lengths: the route from 1 to
\* 4 and the route from 4 to 1 cost the same and are not equally long.
C25_Witness ==
  /\ pure.op = "routePair"
  /\ pure.a = 1 /\ pure.b = 4
  /\ pure.solver # <<>>
  /\ SolverCost(pure.solver) = SolverCost(pure.solverBack)
  /\ pure.row.distance_m # pure.rowBack.distance_m

-----------------------------------------------------------------------------
(* Maintenance of the tables nodes and edges: POST, PUT and DELETE of       *)
(* /v1/nodes and /v1/edges, each handler from its validator to its          *)
(* statement.  Rows of nodes are [id, type, x, y]; rows of edges are        *)
(* [id, source, target, cost, geom].  A body field that is not given is     *)
(* NULL.  The handlers never look a node id up before storing it in an      *)
(* edge and never look for edges before deleting a node; the tables are     *)
(* plain sets of rows.                                                      *)

MaxNodeRows == 2

MaxEdgeRows == 1

CrudGeom == <<<<0, 0>>, <<1, 0>>>>

\* isInt({ gt: 0 }) and isFloat({ min: 0 }) of a field that is given.
IsIntGt0(raw) == raw # NULL /\ raw[1] > 0

IsFloatMin0(raw) == raw # NULL /\ raw[1] >= 0

\* validate("createEdge"): source, target and cost exist and are well formed.
ValidCreateEdge(body) ==
  IsIntGt0(body.source) /\ IsIntGt0(body.target) /\ IsFloatMin0(body.cost)

\* validate("updateEdge"): every field is optional.
ValidUpdateEdge(body) ==
  /\ body.source = NULL \/ IsIntGt0(body.source)
  /\ body.target = NULL \/ IsIntGt0(body.target)
  /\ body.cost = NULL \/ IsFloatMin0(body.cost)

\* EdgesRepository.create: INSERT INTO edges (source, target, cost, geom).
EdgesCreate(tbl, id, body) ==
  tbl \cup { [id |-> id, source |-> body.source[1], target |-> body.target[1],
              cost |-> body.cost[1], geom |-> CrudGeom] }

\* EdgesRepository.update: SET of the fields that are not undefined.
EdgesUpdate(tbl, id, data) ==
  { IF r.id # id THEN r
    ELSE [r EXCEPT !.source = COALESCE(data.source, r.source),
                   !.target = COALESCE(data.target, r.target),
                   !.cost = COALESCE(data.cost, r.cost)] : r \in tbl }

\* EdgesRepository.remove / NodesRepository.deleteNode: DELETE ... WHERE id = $1.
DeleteById(tbl, id) == { r \in tbl : r.id # id }

Ids(tbl) == { r.id : r \in tbl }

CrudIds == 0..MaxNodeRows

CrudCosts == {-1, 0, 2}

EdgeBodies ==
  [source : {NULL} \cup { Some(i) : i \in CrudIds },
   target : {NULL} \cup { Some(i) : i \in CrudIds },
   cost : {NULL} \cup { Some(c) : c \in CrudCosts }]

NodeTypes == {"poi", "intersection"}

InitCrud ==
  /\ temple_nodes = {}
  /\ temple_edges = {}
  /\ temple_features = {}
  /\ edges = {}
  /\ nodes_table = {}
  /\ users = {}
  /\ refresh_tokens = {}
  /\ verification_codes = {}
  /\ now = 0
  /\ node_seq = 0
  /\ edge_seq = 0
  /\ req = <<>>
  /\ calls = 0
  /\ pure = NoCall

Reply(op, code) == pure' = [op |-> op, code |-> code]

\* POST /v1/nodes with a valid body: NodesController.createNode.
CreateNode ==
  /\ node_seq < MaxNodeRows
  /\ \E type \in NodeTypes :
       nodes_table' = nodes_table \cup { [id |-> node_seq + 1, type |-> type, x |-> 0, y |-> 0] }
  /\ node_seq' = node_seq + 1
  /\ Reply("createNode", 201)
  /\ UNCHANGED <<temple_nodes, temple_edges, temple_features, edges, users, refresh_tokens,
                 verification_codes, now, edge_seq, req, calls>>

\* PUT /v1/nodes/:id: NodesController.updateNode.
UpdateNode ==
  /\ \E id \in CrudIds, type \in NodeTypes :
       IF id \in Ids(nodes_table)
       THEN /\ nodes_table' = { IF r.id = id THEN [r EXCEPT !.type = type] ELSE r : r \in nodes_table }
            /\ Reply("updateNode", 200)
       ELSE /\ Reply("updateNode", 404)
            /\ UNCHANGED nodes_table
  /\ UNCHANGED <<temple_nodes, temple_edges, temple_features, edges, users, refresh_tokens,
                 verification_codes, now, node_seq, edge_seq, req, calls>>

\* DELETE /v1/nodes/:id: NodesController.deleteNode.
DeleteNode ==
  /\ \E id \in CrudIds :
       IF id \in Ids(nodes_table)
       THEN /\ nodes_table' = DeleteById(nodes_table, id)
            /\ Reply("deleteNode", 200)
       ELSE /\ Reply("deleteNode", 404)
            /\ UNCHANGED nodes_table
  /\ UNCHANGED <<temple_nodes, temple_edges, temple_features, edges, users, refresh_tokens,
                 verification_codes, now, node_seq, edge_seq, req, calls>>

\* POST /v1/edges: validate("createEdge"), EdgesController.createEdge.
CreateEdge ==
  /\ \E body \in EdgeBodies :
       IF ~ValidCreateEdge(body)
       THEN /\ Reply("createEdge", 400)
            /\ UNCHANGED <<edges, edge_seq>>
       ELSE /\ edge_seq < MaxEdgeRows
            /\ edges' = EdgesCreate(edges, edge_seq + 1, body)
            /\ edge_seq' = edge_seq + 1
            /\ Reply("createEdge", 201)
  /\ UNCHANGED <<temple_nodes, temple_edges, temple_features, nodes_table, users, refresh_tokens,
                 verification_codes, now, node_seq, req, calls>>

\* PUT /v1/edges/:id: validate("updateEdge"), EdgesController.updateEdge.
UpdateEdge ==
  /\ \E id \in 1..MaxEdgeRows, body \in EdgeBodies :
       IF ~ValidUpdateEdge(body)
       THEN /\ Reply("updateEdge", 400)
            /\ UNCHANGED edges
       ELSE IF id \notin Ids(edges)
       THEN /\ Reply("updateEdge", 404)
            /\ UNCHANGED edges
       ELSE /\ edges' = EdgesUpdate(edges, id, body)
            /\ Reply("updateEdge", 200)
  /\ UNCHANGED <<temple_nodes, temple_edges, temple_features, nodes_table, users, refresh_tokens,
                 verification_codes, now, node_seq, edge_seq, req, calls>>

\* DELETE /v1/edges/:id: EdgesController.deleteEdge.
DeleteEdge ==
  /\ \E id \in 1..MaxEdgeRows :
       IF id \in Ids(edges)
       THEN /\ edges' = DeleteById(edges, id)
            /\ Reply("deleteEdge", 200)
       ELSE /\ Reply("deleteEdge", 404)
            /\ UNCHANGED edges
  /\ UNCHANGED <<temple_nodes, temple_edges, temple_features, nodes_table, users, refresh_tokens,
                 verification_codes, now, node_seq, edge_seq, req, calls>>

NextCrud == CreateNode \/ UpdateNode \/ DeleteNode \/ CreateEdge \/ UpdateEdge \/ DeleteEdge

SpecCrud == InitCrud /\ [][NextCrud]_vars

\* C24: after any sequence of node and edge create, update and delete
\* operations, every stored edge has a source and a target that are ids of
\* stored nodes, and a cost that is not negative.
C24_EdgesReferenceNodes ==
  \A e \in edges :
    /\ e.source \in Ids(nodes_table)
    /\ e.target \in Ids(nodes_table)
    /\ e.cost >= 0

-----------------------------------------------------------------------------
\* C21: a route request sees one version of the graph: while a request of
\* the second version is between two of its reads (the nearest node is
\* read, the entry node or the route is still to be read), the stored nodes
\* and edges that its statements read do not change.
C21_SingleGraphVersion ==
  [][\A c \in Conns :
       (req[c].pc \in {"entry", "route"} /\ req[c].ver = "v2")
         => (temple_nodes' = temple_nodes /\ temple_edges' = temple_edges)]_vars

-----------------------------------------------------------------------------
(* Refresh tokens: UsersController.login, refreshToken and logout,          *)
(* ProvidersController.googleLogin and the table refresh_tokens, rows       *)
(* [id, user_id, token_hash, expires_at, revoked_at].                       *)
(*                                                                          *)
(* A JWT is the record of its claims [sub, iat, jti]; jti = 0 stands for a  *)
(* token signed without jti.  The column token_hash holds either the token  *)
(* itself (salt 0) or its bcrypt hash, which differs from the token and     *)
(* from every other hash of it (salt > 0).  Each handler runs inside        *)
(* withTransaction: its statements are separate steps that read committed   *)
(* rows, its writes become visible at COMMIT, and an UPDATE waits for       *)
(* another transaction's pending UPDATE of the same row.                    *)

MaxAuthCalls == 3

MaxTime == 2

\* REFRESH_TOKEN_EXP_DAYS, in ticks of the clock.
RefreshTtl == 2

UserIds == {1, 2}

AuthUsers == { [id |-> 1, is_email_verified |-> TRUE], [id |-> 2, is_email_verified |-> FALSE] }

\* jwt.sign({ sub, jti }, JWT_REFRESH_SECRET, { expiresIn })
JwtSign(sub, iat, jti) == [sub |-> sub, iat |-> iat, jti |-> jti]

\* A string that is no token signed with JWT_REFRESH_SECRET.
Garbage == JwtSign(0, 0, 0)

\* jwt.verify(token, JWT_REFRESH_SECRET): the signature and exp.
JwtVerify(token, t) == token.sub # 0 /\ t < token.iat + RefreshTtl

\* The value of token_hash when the token itself is stored.
Plain(token) == [raw |-> token, salt |-> 0]

\* bcrypt.hash(token, 10) with the salt it drew.
BcryptHash(token, salt) == [raw |-> token, salt |-> salt]

\* WHERE token_hash = $1
TokenMatches(hash, token) == hash = Plain(token)

\* RefreshTokensRepository.findValidToken, before LIMIT 1.
FindValidToken(rows, token, t) ==
  { r \in rows : TokenMatches(r.token_hash, token) /\ r.revoked_at = NULL /\ r.expires_at > t }

\* RefreshTokensRepository.findAllValidByUser
FindAllValidByUser(rows, user_id, t) ==
  { r \in rows : r.user_id = user_id /\ r.revoked_at = NULL /\ r.expires_at > t }

\* The rows that revokeAllForUser updates.
RevokeAllTargets(rows, user_id) == { r.id : r \in { q \in rows : q.user_id = user_id /\ q.revoked_at = NULL } }

InTx(c) == req[c].pc \in {"revokeAll", "revoke", "create", "commit"}

\* Another transaction holds a pending UPDATE of one of the rows.
RowLocked(c, ids) == \E d \in Conns \ {c} : InTx(d) /\ req[d].tx_revoke \cap ids # {}

\* The tokens a client can present: those handed out, and a string that is none.
Presentable == { r.token_hash.raw : r \in refresh_tokens } \cup {Garbage}

\* What is known of the presented token when the call looks it up.
Live(token) ==
  \E r \in refresh_tokens : r.token_hash.raw = token /\ r.revoked_at = NULL /\ r.expires_at > now

RevokedBefore(token) ==
  /\ \E r \in refresh_tokens : r.token_hash.raw = token
  /\ \A r \in refresh_tokens : r.token_hash.raw = token => r.revoked_at # NULL

authRest == <<temple_nodes, temple_edges, edges, nodes_table, temple_features, node_seq, edge_seq,
              users, verification_codes, pure>>

InitAuth ==
  /\ temple_nodes = {}
  /\ temple_edges = {}
  /\ temple_features = {}
  /\ edges = {}
  /\ nodes_table = {}
  /\ users = AuthUsers
  /\ refresh_tokens = {}
  /\ verification_codes = {}
  /\ now = 0
  /\ node_seq = 0
  /\ edge_seq = 0
  /\ req = [c \in Conns |-> Idle]
  /\ calls = 0
  /\ pure = NoCall

AuthDone(c, op, code, token, issued) ==
  [pc |-> "done", op |-> op, rid |-> req[c].rid, token |-> token, issued |-> issued, code |-> code,
   live |-> req[c].live, revokedBefore |-> req[c].revokedBefore]

AuthFailed(op, code, token) ==
  [pc |-> "done", op |-> op, rid |-> calls + 1, token |-> token, issued |-> NULL, code |-> code,
   live |-> Live(token), revokedBefore |-> RevokedBefore(token)]

AuthTx(op, next, user_id, token, hash, found) ==
  [pc |-> next, op |-> op, rid |-> calls + 1, user_id |-> user_id, token |-> token, hash |-> hash,
   expires_at |-> now + RefreshTtl, begun |-> now, found |-> found, tx_revoke |-> {}, tx_insert |-> {},
   live |-> Live(token), revokedBefore |-> RevokedBefore(token)]

\* UsersController.login up to the signing of the tokens.
LoginStart(c) ==
  /\ req[c].pc = "idle"
  /\ calls < MaxAuthCalls
  /\ \E id \in UserIds \cup {0}, validPassword \in BOOLEAN :
       LET found == { u \in users : u.id = id }
           token == JwtSign(id, now, calls + 1)
       IN IF found = {} \/ ~validPassword
          THEN Set(c, AuthFailed("login", 401, Garbage))
          ELSE IF \E u \in found : ~u.is_email_verified
          THEN Set(c, AuthFailed("login", 403, Garbage))
          ELSE Set(c, AuthTx("login", "revokeAll", id, token, Plain(token), 0))
  /\ calls' = calls + 1
  /\ UNCHANGED <<authRest, refresh_tokens, now>>

\* ProvidersController.googleLogin, for a user with a linked provider
\* record, up to the hashing of the refresh token.
GoogleLoginStart(c) ==
  /\ req[c].pc = "idle"
  /\ calls < MaxAuthCalls
  /\ \E id \in UserIds, granted \in BOOLEAN :
       LET token == JwtSign(id, now, 0)
       IN IF ~granted
          THEN Set(c, AuthFailed("googleLogin", 500, Garbage))
          ELSE Set(c, AuthTx("googleLogin", "revokeAll", id, token, BcryptHash(token, calls + 1), 0))
  /\ calls' = calls + 1
  /\ UNCHANGED <<authRest, refresh_tokens, now>>

\* refreshTokensRepository.revokeAllForUser(user.id, client)
RevokeAllForUser(c) ==
  /\ req[c].pc = "revokeAll"
  /\ LET ids == RevokeAllTargets(refresh_tokens, req[c].user_id)
     IN /\ ~RowLocked(c, ids)
        /\ Set(c, [req[c] EXCEPT !.pc = "create", !.tx_revoke = ids])
  /\ UNCHANGED <<authRest, refresh_tokens, now, calls>>

\* UsersController.refreshToken: jwt.verify and findValidToken.
RefreshTokenStart(c) ==
  /\ req[c].pc = "idle"
  /\ calls < MaxAuthCalls
  /\ \E token \in Presentable :
       IF ~JwtVerify(token, now)
       THEN Set(c, AuthFailed("refreshToken", 401, token))
       ELSE LET valid == FindValidToken(refresh_tokens, token, now)
            IN IF valid = {}
               THEN Set(c, AuthFailed("refreshToken", 401, token))
               ELSE \E storedToken \in valid :
                      Set(c, AuthTx("refreshToken", "revoke", token.sub, token, Plain(token), storedToken.id))
  /\ calls' = calls + 1
  /\ UNCHANGED <<authRest, refresh_tokens, now>>

\* UsersController.logout: jwt.verify and findValidToken.
LogoutStart(c) ==
  /\ req[c].pc = "idle"
  /\ calls < MaxAuthCalls
  /\ \E token \in Presentable :
       IF ~JwtVerify(token, now)
       THEN Set(c, AuthFailed("logout", 401, token))
       ELSE LET valid == FindValidToken(refresh_tokens, token, now)
            IN IF valid = {}
               THEN Set(c, AuthFailed("logout", 404, token))
               ELSE \E storedToken \in valid :
                      Set(c, AuthTx("logout", "revoke", token.sub, token, Plain(token), storedToken.id))
  /\ calls' = calls + 1
  /\ UNCHANGED <<authRest, refresh_tokens, now>>

\* refreshTokensRepository.revokeToken(storedToken.id, client); refreshToken
\* then signs the new token.
RevokeToken(c) ==
  /\ req[c].pc = "revoke"
  /\ ~RowLocked(c, {req[c].found})
  /\ IF req[c].op = "refreshToken"
     THEN LET token == JwtSign(req[c].user_id, now, req[c].rid)
          IN Set(c, [req[c] EXCEPT !.pc = "create", !.tx_revoke = {req[c].found},
                                   !.hash = Plain(token), !.expires_at = now + RefreshTtl])
     ELSE Set(c, [req[c] EXCEPT !.pc = "commit", !.tx_revoke = {req[c].found}])
  /\ UNCHANGED <<authRest, refresh_tokens, now, calls>>

\* refreshTokensRepository.createRefreshToken(user_id, token_hash, expires_at, client)
CreateRefreshToken(c) ==
  /\ req[c].pc = "create"
  /\ Set(c, [req[c] EXCEPT !.pc = "commit",
                           !.tx_insert = { [id |-> req[c].rid, user_id |-> req[c].user_id,
                                            token_hash |-> req[c].hash, expires_at |-> req[c].expires_at,
                                            revoked_at |-> NULL] }])
  /\ UNCHANGED <<authRest, refresh_tokens, now, calls>>

\* withTransaction: the callback returned; the handler answers with the
\* token it signed.
CommitAuth(c) ==
  /\ req[c].pc = "commit"
  /\ refresh_tokens' =
       { IF r.id \in req[c].tx_revoke THEN [r EXCEPT !.revoked_at = Some(req[c].begun)] ELSE r :
           r \in refresh_tokens } \cup req[c].tx_insert
  /\ Set(c, AuthDone(c, req[c].op, 200, req[c].token,
                     IF req[c].op = "logout" THEN NULL ELSE Some(req[c].hash.raw)))
  /\ UNCHANGED <<authRest, now, calls>>

\* The connection is free for the next request.
FinishAuth(c) ==
  /\ req[c].pc = "done"
  /\ Set(c, Idle)
  /\ UNCHANGED <<authRest, refresh_tokens, now, calls>>

\* Time passes.
Tick ==
  /\ now < MaxTime
  /\ now' = now + 1
  /\ UNCHANGED <<authRest, refresh_tokens, req, calls>>

NextAuthOf(c) ==
  \/ LoginStart(c)
  \/ GoogleLoginStart(c)
  \/ RefreshTokenStart(c)
  \/ LogoutStart(c)
  \/ RevokeAllForUser(c)
  \/ RevokeToken(c)
  \/ CreateRefreshToken(c)
  \/ CommitAuth(c)
  \/ FinishAuth(c)

NextAuth == Tick \/ \E c \in Conns : NextAuthOf(c)

\* Requests that may overlap.
SpecAuth == InitAuth /\ [][NextAuth]_vars

NextAuthSeq == Tick \/ NextAuthOf(1)

\* One request at a time.
SpecAuthSeq == InitAuth /\ [][NextAuthSeq]_vars


-----------------------------------------------------------------------------
Answered(c, ops) == req[c].pc = "done" /\ "op" \in DOMAIN req[c] /\ req[c].op \in ops

\* C27: a refresh token is redeemed at most once: a refreshToken or logout
\* call with a token that was already revoked when the call looked it up
\* fails, and of two refreshToken calls with the same token that overlap at
\* most one succeeds.
C27_RedeemedAtMostOnce ==
  /\ \A c \in Conns :
       (Answered(c, {"refreshToken", "logout"}) /\ req[c].revokedBefore) => req[c].code # 200
  /\ \A c \in Conns, d \in Conns :
       (c # d /\ Answered(c, {"refreshToken"}) /\ Answered(d, {"refreshToken"})
          /\ req[c].token = req[d].token)
         => ~(req[c].code = 200 /\ req[d].code = 200)

\* C28: with one request at a time, every user has at most one stored
\* refresh token that is neither revoked nor expired, and right after a
\* successful login (by password or by Google) that token is the one the
\* login returned, as long as it has not expired.
C28_OneValidTokenPerUser ==
  /\ \A id \in UserIds : Cardinality(FindAllValidByUser(refresh_tokens, id, now)) <= 1
  /\ \A c \in Conns :
       (Answered(c, {"login", "googleLogin"}) /\ req[c].code = 200 /\ JwtVerify(req[c].issued[1], now))
         => { r.token_hash : r \in FindAllValidByUser(refresh_tokens, req[c].issued[1].sub, now) }
              = { Plain(req[c].issued[1]) }

\* C29: a refreshToken call with a token that a login returned, whose row is
\* neither revoked nor expired when the call looks it up, succeeds.
C29_LoginTokenAccepted ==
  \A c \in Conns :
    (Answered(c, {"refreshToken"}) /\ req[c].live) => req[c].code = 200


-----------------------------------------------------------------------------
(* Email verification: UsersController.register, verifyEmail and            *)
(* resendVerification over the tables users and verification_codes, rows    *)
(* [id, user_id, code, purpose, expires_at, used_at, created_at].  One      *)
(* request runs at a time; each action is a handler with its transaction.   *)
(* generateVerificationCode yields any code; two codes may be equal.        *)
(* The call record pure also keeps the (user, code) pairs verifyEmail has   *)
(* succeeded with and the code last issued to each user.                    *)

MaxVerifyCalls == 4

\* The lifetime of a code (10 minutes), in ticks of the clock.
CodeTtl == 1

VerificationCodes == {111111, 222222}

EMAIL_VERIFICATION == "email_verification"

\* Variant: the code is left as it is.
MarkCodeAsUsedNot(rows, id, t) == rows

\* VerificationCodeRepository.markCodeAsUsed
MarkCodeAsUsed(rows, id, t) ==
  { IF r.id = id THEN [r EXCEPT !.used_at = Some(t)] ELSE r : r \in rows }

\* VerificationCodeRepository.getValidCodeByUserAndPurpose: the rows that
\* ORDER BY created_at DESC LIMIT 1 can return.
GetValidCodeByUserAndPurpose(rows, user_id, purpose, t) ==
  LET valid == { r \in rows : r.user_id = user_id /\ r.purpose = purpose
                                /\ r.used_at = NULL /\ r.expires_at > t }
  IN { r \in valid : \A q \in valid : q.created_at <= r.created_at }

\* VerificationCodeRepository.deleteCodesByUser
DeleteCodesByUser(rows, user_id) == { r \in rows : r.user_id # user_id }

\* VerificationCodeRepository.createVerificationCode
CreateVerificationCode(rows, id, user_id, code, purpose, expires_at, t) ==
  rows \cup { [id |-> id, user_id |-> user_id, code |-> code, purpose |-> purpose,
               expires_at |-> expires_at, used_at |-> NULL, created_at |-> t] }

\* usersRepository.verifyEmail
UsersVerifyEmail(rows, id) ==
  { IF u.id = id THEN [u EXCEPT !.is_email_verified = TRUE] ELSE u : u \in rows }

verifyRest == <<temple_nodes, temple_edges, edges, nodes_table, temple_features, node_seq, edge_seq,
                refresh_tokens, req, now>>

InitVerify ==
  /\ temple_nodes = {}
  /\ temple_edges = {}
  /\ temple_features = {}
  /\ edges = {}
  /\ nodes_table = {}
  /\ users = {}
  /\ refresh_tokens = {}
  /\ verification_codes = {}
  /\ now = 0
  /\ node_seq = 0
  /\ edge_seq = 0
  /\ req = <<>>
  /\ calls = 0
  /\ pure = [op |-> "none", succeeded |-> {}, issued |-> [id \in UserIds |-> 0]]

Answer(op, id, code, status, succeeded, issued) ==
  pure' = [op |-> op, user |-> id, code |-> code, status |-> status,
           again |-> <<id, code>> \in pure.succeeded, latest |-> pure.issued[id],
           succeeded |-> succeeded, issued |-> issued]

\* POST /auth/register
Register ==
  /\ calls < MaxVerifyCalls
  /\ \E id \in UserIds, rawCode \in VerificationCodes :
       IF \E u \in users : u.id = id
       THEN /\ Answer("register", id, rawCode, 409, pure.succeeded, pure.issued)
            /\ UNCHANGED <<users, verification_codes>>
       ELSE /\ users' = users \cup { [id |-> id, is_email_verified |-> FALSE] }
            /\ verification_codes' =
                 CreateVerificationCode(verification_codes, calls + 1, id, rawCode, EMAIL_VERIFICATION,
                                        now + CodeTtl, now)
            /\ Answer("register", id, rawCode, 201, pure.succeeded, [pure.issued EXCEPT ![id] = rawCode])
  /\ calls' = calls + 1
  /\ UNCHANGED verifyRest

\* POST /auth/verify-email
VerifyEmail ==
  /\ calls < MaxVerifyCalls
  /\ \E id \in UserIds, code \in VerificationCodes :
       LET found == GetValidCodeByUserAndPurpose(verification_codes, id, EMAIL_VERIFICATION, now)
       IN IF ~\E u \in users : u.id = id
          THEN /\ Answer("verifyEmail", id, code, 404, pure.succeeded, pure.issued)
               /\ UNCHANGED <<users, verification_codes>>
          ELSE IF found = {}
          THEN /\ Answer("verifyEmail", id, code, 400, pure.succeeded, pure.issued)
               /\ UNCHANGED <<users, verification_codes>>
          ELSE \E verification \in found :
                 IF verification.code # code
                 THEN /\ Answer("verifyEmail", id, code, 400, pure.succeeded, pure.issued)
                      /\ UNCHANGED <<users, verification_codes>>
                 ELSE /\ verification_codes' = MarkCodeAsUsed(verification_codes, verification.id, now)
                      /\ users' = UsersVerifyEmail(users, id)
                      /\ Answer("verifyEmail", id, code, 200, pure.succeeded \cup {<<id, code>>}, pure.issued)
  /\ calls' = calls + 1
  /\ UNCHANGED verifyRest

\* POST /auth/resend-verification
ResendVerification ==
  /\ calls < MaxVerifyCalls
  /\ \E id \in UserIds, rawCode \in VerificationCodes :
       IF ~\E u \in users : u.id = id
       THEN /\ Answer("resendVerification", id, rawCode, 404, pure.succeeded, pure.issued)
            /\ UNCHANGED <<users, verification_codes>>
       ELSE IF \E u \in users : u.id = id /\ u.is_email_verified
       THEN /\ Answer("resendVerification", id, rawCode, 400, pure.succeeded, pure.issued)
            /\ UNCHANGED <<users, verification_codes>>
       ELSE /\ verification_codes' =
                 CreateVerificationCode(DeleteCodesByUser(verification_codes, id), calls + 1, id, rawCode,
                                        EMAIL_VERIFICATION, now + CodeTtl, now)
            /\ Answer("resendVerification", id, rawCode, 200, pure.succeeded,
                      [pure.issued EXCEPT ![id] = rawCode])
            /\ UNCHANGED users
  /\ calls' = calls + 1
  /\ UNCHANGED verifyRest

\* Time passes between two requests.
TickVerify ==
  /\ now < MaxTime
  /\ now' = now + 1
  /\ UNCHANGED <<temple_nodes, temple_edges, edges, nodes_table, temple_features, node_seq, edge_seq,
                 refresh_tokens, req, users, verification_codes, calls, pure>>

NextVerify == Register \/ VerifyEmail \/ ResendVerification \/ TickVerify

SpecVerify == InitVerify /\ [][NextVerify]_vars

\* C30: a verification code is used once: a verifyEmail call that succeeds
\* presents a code with which no earlier verifyEmail call of that user has
\* succeeded, and the code it presents is the one last issued to the user
\* (by register or by the latest resendVerification).
C30_CodeSingleUse ==
  (pure.op = "verifyEmail" /\ pure.status = 200)
    => (~pure.again /\ pure.code = pure.latest)

\* A code with which verifyEmail has succeeded is presented again for the
\* same user and is refused.
C30_Witness ==
  /\ pure.op = "verifyEmail"
  /\ pure.again
  /\ pure.status = 400

====
